---- MODULE Spec2Model ----
(***************************************************************************)
(* Model of the scarlet-planner core: the schedule engine                  *)
(* (src/schedule_builder.py), the bitmap filter index and the course index *)
(* (src/search.py) and the shared parsers (src/utils/parsing.py).          *)
(*                                                                         *)
(* A Python str is modelled as a sequence of one-character strings, so     *)
(* that the parsers are modelled by what they do to the characters.        *)
(***************************************************************************)
EXTENDS Integers, Sequences, FiniteSets, TLC

VARIABLES
  courses,       \* ScheduleBuilder.courses: insertion-ordered dict, as a sequence of Course records
  _color_index,  \* ScheduleBuilder._color_index
  ret,           \* the last public operation of the engine: its name, argument and returned value
  prev,          \* ScheduleBuilder.courses as it was when the last operation was called
  idx,           \* the BitmapIndex / CourseIndex built from a catalog snapshot
  req,           \* the arguments of the last index query
  out            \* the value returned by the last index query

vars == <<courses, _color_index, ret, prev, idx, req, out>>
engineVars == <<courses, _color_index, ret, prev>>
indexVars == <<idx, req, out>>

----------------------------------------------------------------------------
(* Python str helpers *)

Digits == <<"0", "1", "2", "3", "4", "5", "6", "7", "8", "9">>
LowerCase == <<"a", "b", "c", "d", "e", "f", "g", "h", "i", "j", "k", "l", "m",
               "n", "o", "p", "q", "r", "s", "t", "u", "v", "w", "x", "y", "z">>
UpperCase == <<"A", "B", "C", "D", "E", "F", "G", "H", "I", "J", "K", "L", "M",
               "N", "O", "P", "Q", "R", "S", "T", "U", "V", "W", "X", "Y", "Z">>

\* The value that stands for "the call raised an exception" (ValueError, IndexError).
\* Every value a parser returns normally is a natural number or a sequence.
Raised == -1

IsDigitChar(c) == \E i \in 1..10 : Digits[i] = c
DigitVal(c) == (CHOOSE i \in 1..10 : Digits[i] = c) - 1
IsSpace(c) == c = " "

\* str.upper()
UpperChar(c) ==
  IF \E i \in 1..26 : LowerCase[i] = c
  THEN UpperCase[CHOOSE i \in 1..26 : LowerCase[i] = c]
  ELSE c
upper(s) == [i \in 1..Len(s) |-> UpperChar(s[i])]

\* str.find(sub) + 1: the position of the first occurrence of sub in s, 0 when there is none
find(s, sub) ==
  LET hits == {i \in 1..(Len(s) - Len(sub) + 1) : SubSeq(s, i, i + Len(sub) - 1) = sub}
  IN  IF Len(sub) > Len(s) \/ hits = {} THEN 0
      ELSE CHOOSE i \in hits : \A j \in hits : i <= j

\* sub in s
contains(s, sub) == find(s, sub) # 0

\* s.replace(sub, "", 1)
replace_first(s, sub) ==
  LET i == find(s, sub)
  IN  IF i = 0 THEN s
      ELSE SubSeq(s, 1, i - 1) \o SubSeq(s, i + Len(sub), Len(s))

\* s.replace(sub, ""): every non-overlapping occurrence, scanning left to right
RECURSIVE replace_all(_, _)
replace_all(s, sub) ==
  LET i == find(s, sub)
  IN  IF i = 0 THEN s
      ELSE SubSeq(s, 1, i - 1) \o replace_all(SubSeq(s, i + Len(sub), Len(s)), sub)

\* str.strip()
RECURSIVE lstrip(_)
lstrip(s) == IF s # <<>> /\ IsSpace(Head(s)) THEN lstrip(Tail(s)) ELSE s
RECURSIVE rstrip(_)
rstrip(s) == IF s # <<>> /\ IsSpace(s[Len(s)]) THEN rstrip(SubSeq(s, 1, Len(s) - 1)) ELSE s
strip(s) == rstrip(lstrip(s))

\* str.split(sep) for a one-character sep: the list of the parts between separators
RECURSIVE split(_, _)
split(s, sep) ==
  LET i == find(s, <<sep>>)
  IN  IF i = 0 THEN <<s>>
      ELSE <<SubSeq(s, 1, i - 1)>> \o split(SubSeq(s, i + 1, Len(s)), sep)

\* str.split()[0]: the first whitespace-separated token (never empty); the empty
\* sequence stands for "there is no token", where Python raises IndexError
first_token(s) ==
  LET t == lstrip(s)
      sp == find(t, <<" ">>)
  IN  IF t = <<>> THEN <<>>
      ELSE IF sp = 0 THEN t ELSE SubSeq(t, 1, sp - 1)

\* str.isdigit()
isdigit(s) == s # <<>> /\ \A i \in 1..Len(s) : IsDigitChar(s[i])

RECURSIVE DecimalValue(_)
DecimalValue(s) ==
  IF s = <<>> THEN 0
  ELSE 10 * DecimalValue(SubSeq(s, 1, Len(s) - 1)) + DigitVal(s[Len(s)])

\* int(s): surrounding whitespace is ignored; anything but a run of digits raises ValueError
int(s) == IF isdigit(strip(s)) THEN DecimalValue(strip(s)) ELSE Raised

----------------------------------------------------------------------------
(* src/utils/parsing.py *)

DAY_ORDER == <<"Monday", "Tuesday", "Wednesday", "Thursday", "Friday", "Saturday", "Sunday">>

DAY_CODES(code) ==
  CASE code = <<"M", "O">> -> "Monday"
    [] code = <<"T", "U">> -> "Tuesday"
    [] code = <<"W", "E">> -> "Wednesday"
    [] code = <<"T", "H">> -> "Thursday"
    [] code = <<"F", "R">> -> "Friday"
    [] code = <<"S", "A">> -> "Saturday"
    [] code = <<"S", "U">> -> "Sunday"
    [] OTHER -> "none"

\* lines 94-97: the hour on the 24-hour clock
hour_24(h, is_pm, is_am) ==
  IF is_pm /\ h # 12 THEN h + 12
  ELSE IF is_am /\ h = 12 THEN 0
  ELSE h

\* line 91: int(parts[1].split()[0]), tok being the first token, empty when there is none
minute_of(tok) == IF tok = <<>> THEN Raised ELSE int(tok)

\* lines 90-99, with h and m the values of the two int(...) calls
colon_minutes(h, m, is_pm, is_am) ==
  IF h = Raised \/ m = Raised THEN Raised ELSE hour_24(h, is_pm, is_am) * 60 + m

\* lines 88-108, with time_str as it is after line 85
stripped_minutes(t, is_pm, is_am) ==
  IF contains(t, <<":">>)
  THEN colon_minutes(int(split(t, ":")[1]), minute_of(first_token(split(t, ":")[2])),
                     is_pm, is_am)
  ELSE IF isdigit(t)
  THEN IF Len(t) = 4
       THEN DecimalValue(SubSeq(t, 1, 2)) * 60 + DecimalValue(SubSeq(t, 3, 4))
       ELSE DecimalValue(t) * 60
  ELSE 0

\* lines 83-108, with time_str as it is after line 80
upper_minutes(t0) ==
  stripped_minutes(strip(replace_all(replace_all(t0, <<"A", "M">>), <<"P", "M">>)),
                   contains(t0, <<"P", "M">>), contains(t0, <<"A", "M">>))

parse_time_to_minutes(time_str) == upper_minutes(upper(strip(time_str)))

TwoLetterCodes == << <<"T", "U">>, <<"T", "H">>, <<"S", "A">>, <<"S", "U">>,
                     <<"M", "O">>, <<"W", "E">>, <<"F", "R">> >>

\* the first loop of parse_days_to_codes: [result, days_upper] after the codes k..7 are tried
RECURSIVE two_letter_pass(_, _, _)
two_letter_pass(result, days_upper, k) ==
  IF k > Len(TwoLetterCodes) THEN [result |-> result, days_upper |-> days_upper]
  ELSE IF contains(days_upper, TwoLetterCodes[k])
  THEN two_letter_pass(Append(result, TwoLetterCodes[k]),
                       replace_first(days_upper, TwoLetterCodes[k]), k + 1)
  ELSE two_letter_pass(result, days_upper, k + 1)

InSeq(x, s) == \E i \in 1..Len(s) : s[i] = x

\* the second loop of parse_days_to_codes, over the characters that are left
RECURSIVE single_letter_pass(_, _)
single_letter_pass(result, rest) ==
  IF rest = <<>> THEN result
  ELSE LET c == Head(rest)
           r == IF c = "M" /\ ~InSeq(<<"M", "O">>, result) THEN Append(result, <<"M">>)
                ELSE IF c = "W" /\ ~InSeq(<<"W", "E">>, result) THEN Append(result, <<"W">>)
                ELSE IF c = "F" /\ ~InSeq(<<"F", "R">>, result) THEN Append(result, <<"F">>)
                ELSE result
       IN  single_letter_pass(r, Tail(rest))

parse_days_to_codes(days_str) ==
  LET p == two_letter_pass(<<>>, upper(days_str), 1)
  IN  single_letter_pass(p.result, p.days_upper)

RECURSIVE codes_to_names(_)
codes_to_names(codes) ==
  IF codes = <<>> THEN <<>>
  ELSE LET code == Head(codes)
           name == IF DAY_CODES(code) # "none" THEN <<DAY_CODES(code)>>
                   ELSE IF code = <<"M">> THEN <<"Monday">>
                   ELSE IF code = <<"W">> THEN <<"Wednesday">>
                   ELSE IF code = <<"F">> THEN <<"Friday">>
                   ELSE <<>>
       IN  name \o codes_to_names(Tail(codes))

parse_days_to_full_names(days_str) == codes_to_names(parse_days_to_codes(days_str))

----------------------------------------------------------------------------
(* The sections the operations are exercised on.  Course records carry the   *)
(* fields of src/models.py Course that the modelled code reads.              *)

CourseA ==
  [id |-> "A", code |-> <<"C", "S", " ", "1", "1", "1">>, section |-> <<"A", "1">>, credits |-> 4,
   department |-> <<"C", "S">>, term |-> "Fall 2025", college |-> "CAS", status |-> "Open",
   hub_units |-> <<"QR1">>, section_type |-> "Lecture",
   title |-> <<"I", "n", "t", "r", "o">>, professor |-> <<"S", "m", "i", "t", "h">>,
   schedule |-> <<
      [days |-> <<"M", "W", "F">>,
       start_time |-> <<"1", "0", ":", "0", "0", " ", "A", "M">>,
       end_time |-> <<"1", "1", ":", "0", "0", " ", "A", "M">>]>>]

CourseB ==
  [id |-> "B", code |-> <<"M", "A", " ", "1", "2", "3">>, section |-> <<"A", "1">>, credits |-> 4,
   department |-> <<"M", "A">>, term |-> "Fall 2025", college |-> "CAS", status |-> "Closed",
   hub_units |-> <<"QR1", "CT">>, section_type |-> "Lecture",
   title |-> <<"C", "a", "l", "c", "u", "l", "u", "s">>, professor |-> <<"d", "o", "e">>,
   schedule |-> <<
      [days |-> <<"M", "W", "F">>,
       start_time |-> <<"1", "0", ":", "3", "0", " ", "A", "M">>,
       end_time |-> <<"1", "1", ":", "3", "0", " ", "A", "M">>]>>]

CourseD ==
  [id |-> "D", code |-> <<"E", "K", " ", "3", "8", "1">>, section |-> <<"B", "1">>, credits |-> 4,
   department |-> <<"E", "K">>, term |-> "Fall 2025", college |-> "ENG", status |-> "",
   hub_units |-> <<"CT">>, section_type |-> "Lecture",
   title |-> <<"S", "i", "g", "n", "a", "l", "s">>, professor |-> <<"L", "e", "e">>,
   schedule |-> <<
      [days |-> <<"T", "u", "T", "h">>,
       start_time |-> <<"1", "2", ":", "0", "0", " ", "P", "M">>,
       end_time |-> <<"1", ":", "0", "0", " ", "P", "M">>]>>]

\* a second meeting whose end time is before its start time
CourseE ==
  [id |-> "E", code |-> <<"E", "K", " ", "3", "8", "1">>, section |-> <<"D", "1">>, credits |-> 0,
   department |-> <<"E", "K">>, term |-> "Fall 2025", college |-> "ENG", status |-> "Open",
   hub_units |-> <<>>, section_type |-> "Discussion",
   title |-> <<"S", "i", "g", "n", "a", "l", "s">>, professor |-> <<"L", "e", "e">>,
   schedule |-> <<
      [days |-> <<"T", "u">>,
       start_time |-> <<"1", "2", ":", "3", "0", " ", "P", "M">>,
       end_time |-> <<"2", ":", "0", "0", " ", "P", "M">>],
      [days |-> <<"T", "h">>,
       start_time |-> <<"1", "2", ":", "4", "5", " ", "P", "M">>,
       end_time |-> <<"1", "2", ":", "1", "5", " ", "P", "M">>]>>]

CourseF ==
  [id |-> "F", code |-> <<"M", "A", " ", "1", "2", "4">>, section |-> <<"A", "1">>, credits |-> 4,
   department |-> <<"M", "A">>, term |-> "Spring 2026", college |-> "CAS", status |-> "Open",
   hub_units |-> <<"QR1">>, section_type |-> "Lecture",
   title |-> <<"C", "a", "l", "c", "u", "l", "u", "s">>, professor |-> <<"A", "b", "e", "l">>,
   schedule |-> <<
      [days |-> <<"T", "u">>,
       start_time |-> <<"1", ":", "3", "0", " ", "P", "M">>,
       end_time |-> <<"3", ":", "0", "0", " ", "P", "M">>],
      [days |-> <<"T", "h">>,
       start_time |-> <<"1", ":", "0", "0", " ", "P", "M">>,
       end_time |-> <<"2", ":", "1", "5", " ", "P", "M">>]>>]

\* a second version of section A: the same id with another schedule
CourseA2 ==
  [id |-> "A", code |-> <<"C", "S", " ", "1", "1", "1">>, section |-> <<"A", "1">>, credits |-> 4,
   department |-> <<"C", "S">>, term |-> "Fall 2025", college |-> "CAS", status |-> "Closed",
   hub_units |-> <<"QR1">>, section_type |-> "Lecture",
   title |-> <<"I", "n", "t", "r", "o">>, professor |-> <<"S", "m", "i", "t", "h">>,
   schedule |-> <<
      [days |-> <<"M">>,
       start_time |-> <<"1", "0", "3", "0">>,
       end_time |-> <<"1", "1", "3", "0">>],
      [days |-> <<"T", "h">>,
       start_time |-> <<"1", "2", ":", "3", "0", " ", "P", "M">>,
       end_time |-> <<"1", ":", "1", "5", " ", "P", "M">>]>>]

\* meetings that expand to no event
CourseG ==
  [id |-> "G", code |-> <<"C", "S", " ", "4", "9", "1">>, section |-> <<"A", "1">>, credits |-> 2,
   department |-> <<"C", "S">>, term |-> "Fall 2025", college |-> "CAS", status |-> "Open",
   hub_units |-> <<>>, section_type |-> "IND",
   title |-> <<"S", "t", "u", "d", "y">>, professor |-> <<"S", "t", "a", "f", "f">>,
   schedule |-> <<
      [days |-> <<"T", "b", "a">>,
       start_time |-> <<"1", "0", ":", "0", "0", " ", "A", "M">>,
       end_time |-> <<"1", "1", ":", "0", "0", " ", "A", "M">>],
      [days |-> <<>>,
       start_time |-> <<"1", "0", ":", "0", "0", " ", "A", "M">>,
       end_time |-> <<"1", "1", ":", "0", "0", " ", "A", "M">>],
      [days |-> <<"M", "W", "F">>,
       start_time |-> <<>>,
       end_time |-> <<>>]>>]

\* times without AM/PM, the end parsing to less than the start, and a meeting at the
\* times of section A on other days
CourseH ==
  [id |-> "H", code |-> <<"C", "S", " ", "1", "1", "2">>, section |-> <<"A", "2">>, credits |-> 2,
   department |-> <<"C", "S">>, term |-> "Spring 2026", college |-> "CAS", status |-> "Open",
   hub_units |-> <<>>, section_type |-> "Discussion",
   title |-> <<"d", "a", "t", "a">>, professor |-> <<"W", "i", "l", "s", "o", "n">>,
   schedule |-> <<
      [days |-> <<"T", "h">>,
       start_time |-> <<"1", "2", ":", "3", "0">>,
       end_time |-> <<"1", ":", "0", "0">>],
      [days |-> <<"T", "u", "T", "h">>,
       start_time |-> <<"1", "0", ":", "0", "0", " ", "A", "M">>,
       end_time |-> <<"1", "1", ":", "0", "0", " ", "A", "M">>]>>]

\* a time that int() rejects
CourseI ==
  [id |-> "I", code |-> <<"C", "S", " ", "2", "1", "0">>, section |-> <<"A", "1">>, credits |-> 4,
   department |-> <<"C", "S">>, term |-> "Fall 2025", college |-> "CAS", status |-> "Open",
   hub_units |-> <<>>, section_type |-> "Lecture",
   title |-> <<"S", "y", "s", "t", "e", "m", "s">>, professor |-> <<"D", "o", "e">>,
   schedule |-> <<
      [days |-> <<"W">>,
       start_time |-> <<"9", ":", "x", "x">>,
       end_time |-> <<"1", "0", ":", "0", "0", " ", "A", "M">>]>>]

\* a section without meetings
CourseJ ==
  [id |-> "J", code |-> <<"C", "S", " ", "4", "9", "2">>, section |-> <<"A", "1">>, credits |-> 2,
   department |-> <<"C", "S">>, term |-> "Fall 2025", college |-> "CAS", status |-> "Open",
   hub_units |-> <<>>, section_type |-> "DRS",
   title |-> <<"R", "e", "a", "d", "i", "n", "g">>, professor |-> <<"S", "t", "a", "f", "f">>,
   schedule |-> <<>>]

Catalog ==
  <<CourseA, CourseB, CourseD, CourseE, CourseF, CourseA2, CourseG, CourseH, CourseI, CourseJ>>
CatalogSet == {Catalog[i] : i \in 1..Len(Catalog)}
CourseIds == {c.id : c \in CatalogSet} \cup {"Z"}

\* further sections of EK 381, for the grouping of sections: lectures A1, A5
\* and B1 (section D above) with the discussions A2 and D1 (section E above), a section
\* whose type is in neither set of section types
CourseK ==
  [id |-> "K", code |-> <<"E", "K", " ", "3", "8", "1">>, section |-> <<"A", "1">>, credits |-> 4,
   department |-> <<"E", "K">>, term |-> "Fall 2025", college |-> "ENG", status |-> "Open",
   hub_units |-> <<"CT">>, section_type |-> "Lecture",
   title |-> <<"S", "i", "g", "n", "a", "l", "s">>, professor |-> <<"L", "e", "e">>,
   schedule |-> <<
      [days |-> <<"T", "u", "T", "h">>,
       start_time |-> <<"1", "0", ":", "0", "0", " ", "A", "M">>,
       end_time |-> <<"1", "1", ":", "0", "0", " ", "A", "M">>]>>]

CourseL ==
  [id |-> "L", code |-> <<"E", "K", " ", "3", "8", "1">>, section |-> <<"A", "2">>, credits |-> 0,
   department |-> <<"E", "K">>, term |-> "Fall 2025", college |-> "ENG", status |-> "Open",
   hub_units |-> <<>>, section_type |-> "Discussion",
   title |-> <<"S", "i", "g", "n", "a", "l", "s">>, professor |-> <<"L", "e", "e">>,
   schedule |-> <<
      [days |-> <<"F">>,
       start_time |-> <<"1", "0", ":", "0", "0", " ", "A", "M">>,
       end_time |-> <<"1", "1", ":", "0", "0", " ", "A", "M">>]>>]

CourseM ==
  [id |-> "M", code |-> <<"E", "K", " ", "3", "8", "1">>, section |-> <<"S", "1">>, credits |-> 0,
   department |-> <<"E", "K">>, term |-> "Fall 2025", college |-> "ENG", status |-> "Open",
   hub_units |-> <<>>, section_type |-> "Seminar",
   title |-> <<"S", "i", "g", "n", "a", "l", "s">>, professor |-> <<"K", "i", "m">>,
   schedule |-> <<
      [days |-> <<"W">>,
       start_time |-> <<"3", ":", "0", "0", " ", "P", "M">>,
       end_time |-> <<"4", ":", "0", "0", " ", "P", "M">>]>>]

CourseO ==
  [id |-> "O", code |-> <<"E", "K", " ", "3", "8", "1">>, section |-> <<"A", "5">>, credits |-> 4,
   department |-> <<"E", "K">>, term |-> "Fall 2025", college |-> "ENG", status |-> "Closed",
   hub_units |-> <<"CT">>, section_type |-> "Lecture",
   title |-> <<"S", "i", "g", "n", "a", "l", "s">>, professor |-> <<"K", "i", "m">>,
   schedule |-> <<
      [days |-> <<"M", "W", "F">>,
       start_time |-> <<"9", ":", "0", "0", " ", "A", "M">>,
       end_time |-> <<"1", "0", ":", "0", "0", " ", "A", "M">>]>>]

\* a lecture and a discussion of EK 381 whose section labels start with no letter
CourseP ==
  [id |-> "P", code |-> <<"E", "K", " ", "3", "8", "1">>, section |-> <<"1">>, credits |-> 4,
   department |-> <<"E", "K">>, term |-> "Fall 2025", college |-> "ENG", status |-> "Open",
   hub_units |-> <<>>, section_type |-> "Lecture",
   title |-> <<"S", "i", "g", "n", "a", "l", "s">>, professor |-> <<"K", "i", "m">>,
   schedule |-> <<
      [days |-> <<"T", "u", "T", "h">>,
       start_time |-> <<"1", ":", "0", "0", " ", "P", "M">>,
       end_time |-> <<"2", ":", "0", "0", " ", "P", "M">>]>>]

CourseQ ==
  [id |-> "Q", code |-> <<"E", "K", " ", "3", "8", "1">>, section |-> <<"2">>, credits |-> 0,
   department |-> <<"E", "K">>, term |-> "Fall 2025", college |-> "ENG", status |-> "Open",
   hub_units |-> <<>>, section_type |-> "Discussion",
   title |-> <<"S", "i", "g", "n", "a", "l", "s">>, professor |-> <<"K", "i", "m">>,
   schedule |-> <<
      [days |-> <<"M">>,
       start_time |-> <<"1", ":", "0", "0", " ", "P", "M">>,
       end_time |-> <<"2", ":", "0", "0", " ", "P", "M">>]>>]

\* the sections that lists passed to group_sections are made of
GroupCatalog ==
  {CourseO, CourseK, CourseD, CourseL, CourseE, CourseM, CourseH, CourseP, CourseQ}

\* a section that meets during both meetings of section F
CourseR ==
  [id |-> "R", code |-> <<"C", "S", " ", "3", "3", "0">>, section |-> <<"A", "1">>, credits |-> 4,
   department |-> <<"C", "S">>, term |-> "Spring 2026", college |-> "CAS", status |-> "Open",
   hub_units |-> <<>>, section_type |-> "Lecture",
   title |-> <<"A", "l", "g", "o">>, professor |-> <<"A", "b", "e", "l">>,
   schedule |-> <<
      [days |-> <<"T", "u", "T", "h">>,
       start_time |-> <<"1", ":", "3", "0", " ", "P", "M">>,
       end_time |-> <<"2", ":", "0", "0", " ", "P", "M">>]>>]

\* a section whose only meeting has the day pattern TBA and a time
CourseS ==
  [id |-> "S", code |-> <<"C", "S", " ", "5", "9", "9">>, section |-> <<"A", "1">>, credits |-> 4,
   department |-> <<"C", "S">>, term |-> "Fall 2025", college |-> "CAS", status |-> "Open",
   hub_units |-> <<>>, section_type |-> "Lecture",
   title |-> <<"T", "o", "p", "i", "c", "s">>, professor |-> <<"S", "t", "a", "f", "f">>,
   schedule |-> <<
      [days |-> <<"T", "B", "A">>,
       start_time |-> <<"1", "0", ":", "3", "0", " ", "A", "M">>,
       end_time |-> <<"1", "1", ":", "3", "0", " ", "A", "M">>]>>]

\* the sections that lists passed to detect_conflicts are made of
ConflictCatalog ==
  {CourseA, CourseB, CourseA2, CourseD, CourseF, CourseR, CourseG, CourseI, CourseS}

\* the largest number of sections held by the engine at once
MaxCourses == 3

----------------------------------------------------------------------------
(* src/schedule_builder.py *)

RECURSIVE Flatten(_)
Flatten(ss) == IF ss = <<>> THEN <<>> ELSE Head(ss) \o Flatten(Tail(ss))

COLORS == <<"#CC0000", "#3B82F6", "#10B981", "#8B5CF6", "#F59E0B",
            "#EC4899", "#06B6D4", "#84CC16", "#F97316", "#6366F1">>

\* ScheduleEvent(...): the dataclass record; column and total_columns take their defaults
\* (course_title, section_type, professor and location are copied from the section like
\* course_code and section, and read by no method of the engine)
ScheduleEvent(course, meeting, day, start, end, color) ==
  [course_id |-> course.id, course_code |-> course.code, section |-> course.section,
   day |-> day, start_minutes |-> start, end_minutes |-> end,
   start_time |-> meeting.start_time, end_time |-> meeting.end_time,
   color |-> color, column |-> 0, total_columns |-> 1]

\* ScheduleEvent.overlaps
overlaps(self, other) ==
  IF self.day # other.day THEN FALSE
  ELSE self.start_minutes < other.end_minutes /\ other.start_minutes < self.end_minutes

Max(a, b) == IF a >= b THEN a ELSE b
Min(a, b) == IF a <= b THEN a ELSE b

\* ScheduleConflict with the bounds of the overlap exchanged
ScheduleConflict_swapped(e1, e2) ==
  [event1 |-> e1, event2 |-> e2, day |-> e1.day,
   overlap_start |-> Min(e1.start_minutes, e2.start_minutes),
   overlap_end |-> Max(e1.end_minutes, e2.end_minutes)]

\* ScheduleConflict(...) as built in _detect_conflicts_with and get_all_conflicts
ScheduleConflict(e1, e2) ==
  [event1 |-> e1, event2 |-> e2, day |-> e1.day,
   overlap_start |-> Max(e1.start_minutes, e2.start_minutes),
   overlap_end |-> Min(e1.end_minutes, e2.end_minutes)]

\* ScheduleConflict.overlap_duration
overlap_duration(c) == c.overlap_end - c.overlap_start

\* the start and end of a meeting as _course_to_events computes them
meeting_start(meeting) ==
  IF meeting.start_time # <<>> THEN parse_time_to_minutes(meeting.start_time) ELSE 0
meeting_end(meeting) ==
  IF meeting.end_time # <<>> THEN parse_time_to_minutes(meeting.end_time) ELSE 0

\* the first test of the loop body of _course_to_events: the meeting is passed over
meeting_is_tba(meeting) ==
  meeting.days = <<>> \/ upper(meeting.days) = <<"T", "B", "A">>

\* _course_to_events raises: a meeting that is not passed over has a time that does not parse
course_to_events_raises(course) ==
  \E k \in 1..Len(course.schedule) :
    /\ ~meeting_is_tba(course.schedule[k])
    /\ \/ meeting_start(course.schedule[k]) = Raised
       \/ meeting_end(course.schedule[k]) = Raised

\* timed_events without the test of line 179
timed_events_keep_zero(course, meeting, days, start, end, color) ==
  [d \in 1..Len(days) |-> ScheduleEvent(course, meeting, days[d], start, end, color)]

\* lines 179-197: the events of a meeting that is not passed over
timed_events(course, meeting, days, start, end, color) ==
  IF start = 0 /\ end = 0 THEN <<>>
  ELSE [d \in 1..Len(days) |-> ScheduleEvent(course, meeting, days[d], start, end, color)]

\* the events of one meeting
meeting_events(course, meeting, color) ==
  IF meeting_is_tba(meeting) THEN <<>>
  ELSE timed_events(course, meeting, parse_days_to_full_names(meeting.days),
                    meeting_start(meeting), meeting_end(meeting), color)

_course_to_events(course, color) ==
  Flatten([k \in 1..Len(course.schedule) |-> meeting_events(course, course.schedule[k], color)])

\* _course_to_events for the sections of the catalog, expanded once: a section's events
\* depend on the section alone, and on the color only in their color field
catalog_events ==
  [c \in CatalogSet \cup ConflictCatalog |->
     IF course_to_events_raises(c) THEN <<>> ELSE _course_to_events(c, "temp")]

catalog_raises == [c \in CatalogSet \cup ConflictCatalog |-> course_to_events_raises(c)]

with_color(events, color) ==
  [k \in 1..Len(events) |-> [events[k] EXCEPT !.color = color]]

events_of(course, color) == with_color(catalog_events[course], color)

\* the two inner loops shared by _detect_conflicts_with and get_all_conflicts
pair_conflicts(events1, events2) ==
  Flatten([i \in 1..Len(events1) |->
    Flatten([j \in 1..Len(events2) |->
      IF overlaps(events1[i], events2[j])
      THEN <<ScheduleConflict(events1[i], events2[j])>>
      ELSE <<>>])])

\* a variant of _detect_conflicts_with that looks at the first section present only
_detect_conflicts_with_first(cs, new_course) ==
  IF cs = <<>> THEN <<>>
  ELSE pair_conflicts(events_of(new_course, "temp"), events_of(cs[1], "temp"))

_detect_conflicts_with(cs, new_course) ==
  LET new_events == events_of(new_course, "temp")
  IN  Flatten([c \in 1..Len(cs) |->
        pair_conflicts(new_events, events_of(cs[c], "temp"))])

\* get_all_conflicts pairing every section with every other one, in both orders
get_all_conflicts_both_orders(cs) ==
  Flatten([i \in 1..Len(cs) |->
    Flatten([j \in 1..Len(cs) |->
      IF i = j THEN <<>>
      ELSE pair_conflicts(events_of(cs[i], "temp"), events_of(cs[j], "temp"))])])

get_all_conflicts(cs) ==
  Flatten([i \in 1..Len(cs) |->
    Flatten([k \in 1..(Len(cs) - i) |->
      pair_conflicts(events_of(cs[i], "temp"), events_of(cs[i + k], "temp"))])])

\* dict: course_id in self.courses
has_key(cs, id) == \E i \in 1..Len(cs) : cs[i].id = id

\* dict: self.courses[course.id] = course keeps the position of a key already present
dict_set(cs, course) ==
  IF has_key(cs, course.id)
  THEN [i \in 1..Len(cs) |-> IF cs[i].id = course.id THEN course ELSE cs[i]]
  ELSE Append(cs, course)

\* add_course on the mapping cs: the returned conflicts and the mapping afterwards
add_course(cs, course) ==
  [conflicts |-> _detect_conflicts_with(cs, course), courses |-> dict_set(cs, course)]

\* del that takes the first entry of the mapping, whatever its key
dict_del_first(cs, id) == Tail(cs)

\* dict: del self.courses[course_id]
dict_del(cs, id) == SelectSeq(cs, LAMBDA c : c.id # id)

\* dict: self.courses.get(course_id); the string "None" stands for None
dict_get(cs, id) ==
  IF has_key(cs, id) THEN cs[CHOOSE i \in 1..Len(cs) : cs[i].id = id] ELSE "None"

\* _get_next_color with self._color_index = ci
_get_next_color(ci) == COLORS[(ci % Len(COLORS)) + 1]

\* sorted(events, key=lambda e: (e.start_minutes, e.end_minutes)): stable
key_le(a, b) ==
  \/ a.start_minutes < b.start_minutes
  \/ a.start_minutes = b.start_minutes /\ a.end_minutes <= b.end_minutes

\* sorted left out: the events stay in the order they were generated in
sorted_not(events) == events

RECURSIVE sorted(_)
sorted(events) ==
  IF events = <<>> THEN <<>>
  ELSE LET n == Len(events)
           e == events[n]
           rest == sorted(SubSeq(events, 1, n - 1))
       IN  SelectSeq(rest, LAMBDA x : key_le(x, e)) \o <<e>> \o
           SelectSeq(rest, LAMBDA x : ~key_le(x, e))

\* first_free_column comparing the end of the event instead of its start
first_free_column_by_end(columns, event) ==
  LET free == {i \in 1..Len(columns) : event.end_minutes >= columns[i]}
  IN  IF free = {} THEN Len(columns) + 1
      ELSE CHOOSE i \in free : \A j \in free : i <= j

\* the index (from 1) of the column the event is placed in; Len(columns) + 1 opens a column
first_free_column(columns, event) ==
  LET free == {i \in 1..Len(columns) : event.start_minutes >= columns[i]}
  IN  IF free = {} THEN Len(columns) + 1
      ELSE CHOOSE i \in free : \A j \in free : i <= j

\* the placement loop of _assign_columns, from event k on; done is the events placed so far
RECURSIVE place_events(_, _, _, _)
place_events(events, k, columns, done) ==
  IF k > Len(events) THEN [events |-> done, columns |-> columns]
  ELSE LET event == events[k]
           i == first_free_column(columns, event)
           cols == IF i <= Len(columns)
                   THEN [columns EXCEPT ![i] = event.end_minutes]
                   ELSE Append(columns, event.end_minutes)
       IN  place_events(events, k + 1, cols, Append(done, [event EXCEPT !.column = i - 1]))

\* _assign_columns stamping the number of events instead of the number of columns
_assign_columns_count_events(events) ==
  LET placed == place_events(sorted(events), 1, <<>>, <<>>)
  IN  [k \in 1..Len(placed.events) |-> [placed.events[k] EXCEPT !.total_columns = Len(events)]]

_assign_columns(events) ==
  LET placed == place_events(sorted(events), 1, <<>>, <<>>)
      total_cols == IF placed.columns # <<>> THEN Len(placed.columns) ELSE 1
  IN  [k \in 1..Len(placed.events) |-> [placed.events[k] EXCEPT !.total_columns = total_cols]]

\* lines 207-219 of get_events: the events of every section, in the color drawn for it
colored_events(cs, ci) ==
  Flatten([k \in 1..Len(cs) |-> events_of(cs[k], _get_next_color(ci + k - 1))])

\* lines 230-232 of get_events: a weekday that has events gets its columns assigned
day_columns(day_events) ==
  IF day_events # <<>> THEN _assign_columns(day_events) ELSE <<>>

\* a variant of columns_by_day that takes the weekdays in the order in which the events
\* first fall on them
columns_by_day_first_seen(all_events) ==
  LET firsts == SelectSeq([k \in 1..Len(all_events) |-> k],
                          LAMBDA k : \A j \in 1..(k - 1) : all_events[j].day # all_events[k].day)
  IN  Flatten([i \in 1..Len(firsts) |->
        day_columns(SelectSeq(all_events, LAMBDA e : e.day = all_events[firsts[i]].day))])

\* lines 222-232 of get_events: the events grouped by weekday, in the order of DAY_ORDER
columns_by_day(all_events) ==
  Flatten([d \in 1..Len(DAY_ORDER) |->
    day_columns(SelectSeq(all_events, LAMBDA e : e.day = DAY_ORDER[d]))])

\* get_events without the reset of _color_index at its end
get_events_no_reset(cs, ci) ==
  [result |-> columns_by_day(colored_events(cs, ci)),
   _color_index |-> (ci + Len(cs)) % Len(COLORS)]

\* a variant of get_events that resets _color_index before it draws the colors instead
\* of after
get_events_reset_first(cs, ci) ==
  [result |-> columns_by_day(colored_events(cs, 0)),
   _color_index |-> Len(cs) % Len(COLORS)]

\* get_events called with self._color_index = ci: the returned list and the final _color_index
get_events(cs, ci) ==
  [result |-> columns_by_day(colored_events(cs, ci)), _color_index |-> 0]

\* lines 273-278 of get_events_by_day: the dict by_day, which has every weekday of
\* DAY_ORDER as a key
by_day(events) ==
  [day \in {DAY_ORDER[d] : d \in 1..Len(DAY_ORDER)} |->
     SelectSeq(events, LAMBDA event : event.day = day)]

\* the return of get_events_by_day after its call of get_events returned called
by_day_of(called) == [result |-> by_day(called.result), _color_index |-> called._color_index]

\* get_events_by_day called with self._color_index = ci: the dict returned and the final
\* _color_index
get_events_by_day(cs, ci) == by_day_of(get_events(cs, ci))

RECURSIVE SumSeq(_)
SumSeq(s) == IF s = <<>> THEN 0 ELSE Head(s) + SumSeq(Tail(s))

total_credits(cs) == SumSeq([k \in 1..Len(cs) |-> cs[k].credits])
course_count(cs) == Len(cs)

\* the dict that to_dict builds once its call of get_events returned events
to_dict_of(cs, events) ==
  LET conflicts == get_all_conflicts(cs)
  IN  [courses |-> [k \in 1..Len(cs) |->
                      [id |-> cs[k].id, code |-> cs[k].code, section |-> cs[k].section,
                       credits |-> cs[k].credits]],
       events |-> events,
       conflicts |-> [k \in 1..Len(conflicts) |->
                        [course1_id |-> conflicts[k].event1.course_id,
                         course1_code |-> conflicts[k].event1.course_code,
                         course2_id |-> conflicts[k].event2.course_id,
                         course2_code |-> conflicts[k].event2.course_code,
                         day |-> conflicts[k].day,
                         overlap_minutes |-> overlap_duration(conflicts[k])]],
       total_credits |-> total_credits(cs),
       course_count |-> course_count(cs),
       has_conflicts |-> Len(conflicts) > 0]

to_dict(cs, ci) == to_dict_of(cs, get_events(cs, ci).result)

----------------------------------------------------------------------------
(* src/search.py: BitmapIndex and the empty-query path of CourseIndex.search *)

\* the keys of BitmapIndex.indices
FilterFields == <<"subject", "term", "hub", "college", "status">>

\* the values under which BitmapIndex.build enters a course into the index of a field
indexed_values(course, field) ==
  CASE field = "subject" -> {course.department}
    [] field = "term" -> {course.term}
    [] field = "college" -> {course.college}
    [] field = "status" -> IF course.status # "" THEN {course.status} ELSE {}
    [] field = "hub" -> {course.hub_units[h] : h \in 1..Len(course.hub_units)}

\* BitmapIndex.build: all_ids and, for each field, the map from a value to the ordinals
\* (from 0) of the courses that carry it; a bitmap is modelled as the set of its members
build(cs) ==
  [all_ids |-> 0..(Len(cs) - 1),
   indices |-> [field \in {FilterFields[f] : f \in 1..Len(FilterFields)} |->
                  [value \in UNION {indexed_values(cs[i], field) : i \in 1..Len(cs)} |->
                     {i - 1 : i \in {i \in 1..Len(cs) : value \in indexed_values(cs[i], field)}}]]]

\* the body of the loop of BitmapIndex.filter joining the values of a field with AND
filter_field_and(bitmap_index, result, field, values) ==
  IF values = {} THEN result
  ELSE LET known == {v \in values : v \in DOMAIN bitmap_index.indices[field]}
           field_matches == {i \in bitmap_index.all_ids :
                               known # {} /\ \A v \in known : i \in bitmap_index.indices[field][v]}
       IN  IF field_matches # {} THEN result \cap field_matches ELSE result

\* the body of the loop of BitmapIndex.filter without the test of field_matches
filter_field_no_skip(bitmap_index, result, field, values) ==
  IF values = {} THEN result
  ELSE LET field_matches ==
             UNION {bitmap_index.indices[field][v] :
                      v \in {v \in values : v \in DOMAIN bitmap_index.indices[field]}}
       IN  result \cap field_matches

\* the body of the loop of BitmapIndex.filter joining the fields with OR
filter_field_or(bitmap_index, result, field, values) ==
  IF values = {} THEN result
  ELSE LET field_matches ==
             UNION {bitmap_index.indices[field][v] :
                      v \in {v \in values : v \in DOMAIN bitmap_index.indices[field]}}
       IN  IF field_matches # {} THEN result \cup field_matches ELSE result

\* the body of the loop of BitmapIndex.filter for one field: result after the field.
\* values is the set of the requested values, empty when the field is not requested
filter_field(bitmap_index, result, field, values) ==
  IF values = {} THEN result
  ELSE LET field_matches ==
             UNION {bitmap_index.indices[field][v] :
                      v \in {v \in values : v \in DOMAIN bitmap_index.indices[field]}}
       IN  IF field_matches # {} THEN result \cap field_matches ELSE result

\* the loop of BitmapIndex.filter over the fields k.. of the request
RECURSIVE filter_from(_, _, _, _)
filter_from(bitmap_index, filters, k, result) ==
  IF k > Len(FilterFields) THEN result
  ELSE filter_from(bitmap_index, filters, k + 1,
                   filter_field(bitmap_index, result, FilterFields[k], filters[FilterFields[k]]))

\* BitmapIndex.filter(**filters)
filter(bitmap_index, filters) == filter_from(bitmap_index, filters, 1, bitmap_index.all_ids)

\* the code point of a character of the strings of the catalog
CodePoint(c) ==
  IF c = " " THEN 32
  ELSE IF IsDigitChar(c) THEN 48 + DigitVal(c)
  ELSE IF c = ":" THEN 58
  ELSE IF \E i \in 1..26 : UpperCase[i] = c THEN 64 + (CHOOSE i \in 1..26 : UpperCase[i] = c)
  ELSE 96 + (CHOOSE i \in 1..26 : LowerCase[i] = c)

\* str.lower()
LowerChar(c) ==
  IF \E i \in 1..26 : UpperCase[i] = c
  THEN LowerCase[CHOOSE i \in 1..26 : UpperCase[i] = c]
  ELSE c
lower(s) == [i \in 1..Len(s) |-> LowerChar(s[i])]

\* a <= b for Python str: lexicographic on the code points
RECURSIVE str_le(_, _)
str_le(a, b) ==
  IF a = <<>> THEN TRUE
  ELSE IF b = <<>> THEN FALSE
  ELSE IF CodePoint(Head(a)) # CodePoint(Head(b)) THEN CodePoint(Head(a)) < CodePoint(Head(b))
  ELSE str_le(Tail(a), Tail(b))

\* sorted(s, key=...), le[j][k] telling whether the key of s[j] is at most the key of s[k]:
\* stable, so an element comes after the elements before it with a key at most its own
\* and after the elements behind it with a key less than its own
stable_sort(s, le) ==
  LET n == Len(s)
      rank == [k \in 1..n |->
                Cardinality({j \in 1..n : IF j <= k THEN le[j][k] ELSE ~le[k][j]})]
  IN  [r \in 1..n |-> s[CHOOSE k \in 1..n : rank[k] = r]]

\* CourseIndex._build_sort_indices
_build_sort_indices(cs) ==
  LET n == Len(cs)
      indices == [i \in 1..n |-> i - 1]
  IN  [code |-> stable_sort(indices,
                  [i \in 1..n |-> [j \in 1..n |-> str_le(cs[i].code, cs[j].code)]]),
       title |-> stable_sort(indices,
                  [i \in 1..n |-> [j \in 1..n |-> str_le(lower(cs[i].title), lower(cs[j].title))]]),
       professor |-> stable_sort(indices,
                  [i \in 1..n |-> [j \in 1..n |->
                     str_le(lower(cs[i].professor), lower(cs[j].professor))]]),
       credits |-> stable_sort(indices,
                  [i \in 1..n |-> [j \in 1..n |-> -cs[i].credits <= -cs[j].credits]])]

----------------------------------------------------------------------------
(* src/search.py: TrigramIndex *)

\* re.sub(r'\s+', ' ', text): every run of whitespace becomes one space
RECURSIVE collapse_spaces(_)
collapse_spaces(s) ==
  IF s = <<>> THEN <<>>
  ELSE IF IsSpace(Head(s))
       THEN <<" ">> \o collapse_spaces(lstrip(s))
       ELSE <<Head(s)>> \o collapse_spaces(Tail(s))

\* TrigramIndex._normalize
_normalize(text) == collapse_spaces(strip(lower(text)))

\* TrigramIndex._extract_trigrams
_extract_trigrams(text) ==
  IF Len(text) < 3 THEN (IF text # <<>> THEN {text} ELSE {})
  ELSE {SubSeq(text, i, i + 2) : i \in 1..(Len(text) - 2)}

\* TrigramIndex.__init__
TrigramIndex == [trigram_to_ids |-> <<>>, id_to_text |-> <<>>]

\* the dict d with d[key] set to value
dict_with(d, key, value) ==
  [k \in DOMAIN d \cup {key} |-> IF k = key THEN value ELSE d[k]]

\* the defaultdict(set) d with doc_id added to d[key] for every key of keys
add_to_each(d, keys, doc_id) ==
  [k \in DOMAIN d \cup keys |->
     (IF k \in DOMAIN d THEN d[k] ELSE {}) \cup (IF k \in keys THEN {doc_id} ELSE {})]

\* TrigramIndex.add, for a text that is already normalized
add_normalized(self, doc_id, text) ==
  [trigram_to_ids |-> add_to_each(self.trigram_to_ids, _extract_trigrams(text), doc_id),
   id_to_text |-> dict_with(self.id_to_text, doc_id, text)]

\* TrigramIndex.add
add(self, doc_id, text) == add_normalized(self, doc_id, _normalize(text))

\* the loop of CourseIndex._build_indices: add(i, text) for i, text in enumerate(texts),
\* from position n on
RECURSIVE add_from(_, _, _)
add_from(self, texts, n) ==
  IF n > Len(texts) THEN self
  ELSE add_from(add(self, n - 1, texts[n]), texts, n + 1)

\* match_counts[doc_id] of get_candidates: the number of trigrams of the query that
\* the document is indexed under
match_count(self, trigrams, doc_id) ==
  Cardinality({t \in trigrams : t \in DOMAIN self.trigram_to_ids /\ doc_id \in self.trigram_to_ids[t]})

\* a variant of candidates_of that wants every trigram of the query matched
candidates_of_all(self, trigrams, min_matches) ==
  IF trigrams = {} THEN DOMAIN self.id_to_text
  ELSE {doc_id \in UNION {self.trigram_to_ids[t] : t \in trigrams \cap DOMAIN self.trigram_to_ids} :
          match_count(self, trigrams, doc_id) >= Cardinality(trigrams)}

\* get_candidates for the trigrams of the normalized query
candidates_of(self, trigrams, min_matches) ==
  IF trigrams = {} THEN DOMAIN self.id_to_text
  ELSE {doc_id \in UNION {self.trigram_to_ids[t] : t \in trigrams \cap DOMAIN self.trigram_to_ids} :
          match_count(self, trigrams, doc_id) >= min_matches}

\* TrigramIndex.get_candidates
get_candidates(self, query, min_matches) ==
  candidates_of(self, _extract_trigrams(_normalize(query)), min_matches)

----------------------------------------------------------------------------
(* src/search.py: CourseIndex *)

\* src/utils/departments.py DEPT_CODE_TO_NAME: the rows (code, name) of the table
DEPT_CODE_TO_NAME ==
  <<<<<<"A", "A">>, <<"A", "f", "r", "i", "c", "a", "n", " ", "A", "m", "e", "r", "i", "c", "a", "n", " ", "B", "l", "a", "c", "k", " ", "D", "i", "a", "s", "p", "o", "r", "a", " ", "S", "t", "u", "d", "i", "e", "s">>>>,
    <<<<"A", "H">>, <<"H", "i", "s", "t", "o", "r", "y", " ", "o", "f", " ", "A", "r", "t", " ", "A", "r", "c", "h", "i", "t", "e", "c", "t", "u", "r", "e">>>>,
    <<<<"A", "I">>, <<"A", "s", "i", "a", "n", " ", "S", "t", "u", "d", "i", "e", "s">>>>,
    <<<<"A", "M">>, <<"A", "m", "e", "r", "i", "c", "a", "n", " ", "N", "e", "w", " ", "E", "n", "g", "l", "a", "n", "d", " ", "S", "t", "u", "d", "i", "e", "s">>>>,
    <<<<"A", "N">>, <<"A", "n", "t", "h", "r", "o", "p", "o", "l", "o", "g", "y">>>>,
    <<<<"A", "R">>, <<"A", "r", "c", "h", "a", "e", "o", "l", "o", "g", "y">>>>,
    <<<<"A", "S">>, <<"A", "s", "t", "r", "o", "n", "o", "m", "y">>>>,
    <<<<"B", "B">>, <<"B", "i", "o", "c", "h", "e", "m", "i", "s", "t", "r", "y", " ", "M", "o", "l", "e", "c", "u", "l", "a", "r", " ", "B", "i", "o", "l", "o", "g", "y">>>>,
    <<<<"B", "I">>, <<"B", "i", "o", "l", "o", "g", "y">>>>,
    <<<<"C", "H">>, <<"C", "h", "e", "m", "i", "s", "t", "r", "y">>>>,
    <<<<"C", "I">>, <<"C", "i", "n", "e", "m", "a", " ", "M", "e", "d", "i", "a", " ", "S", "t", "u", "d", "i", "e", "s">>>>,
    <<<<"C", "L">>, <<"C", "l", "a", "s", "s", "i", "c", "a", "l", " ", "S", "t", "u", "d", "i", "e", "s">>>>,
    <<<<"C", "S">>, <<"C", "o", "m", "p", "u", "t", "e", "r", " ", "S", "c", "i", "e", "n", "c", "e">>>>,
    <<<<"E", "C">>, <<"E", "c", "o", "n", "o", "m", "i", "c", "s">>>>,
    <<<<"E", "E">>, <<"E", "a", "r", "t", "h", " ", "E", "n", "v", "i", "r", "o", "n", "m", "e", "n", "t">>>>,
    <<<<"E", "N">>, <<"E", "n", "g", "l", "i", "s", "h">>>>,
    <<<<"H", "I">>, <<"H", "i", "s", "t", "o", "r", "y">>>>,
    <<<<"M", "A">>, <<"M", "a", "t", "h", "e", "m", "a", "t", "i", "c", "s", " ", "S", "t", "a", "t", "i", "s", "t", "i", "c", "s">>>>,
    <<<<"M", "E">>, <<"M", "i", "d", "d", "l", "e", " ", "E", "a", "s", "t", " ", "N", "o", "r", "t", "h", " ", "A", "f", "r", "i", "c", "a", " ", "S", "t", "u", "d", "i", "e", "s">>>>,
    <<<<"M", "U">>, <<"M", "u", "s", "i", "c">>>>,
    <<<<"N", "E">>, <<"N", "e", "u", "r", "o", "s", "c", "i", "e", "n", "c", "e">>>>,
    <<<<"P", "H">>, <<"P", "h", "i", "l", "o", "s", "o", "p", "h", "y">>>>,
    <<<<"P", "O">>, <<"P", "o", "l", "i", "t", "i", "c", "a", "l", " ", "S", "c", "i", "e", "n", "c", "e">>>>,
    <<<<"P", "S">>, <<"P", "s", "y", "c", "h", "o", "l", "o", "g", "i", "c", "a", "l", " ", "B", "r", "a", "i", "n", " ", "S", "c", "i", "e", "n", "c", "e", "s">>>>,
    <<<<"P", "Y">>, <<"P", "h", "y", "s", "i", "c", "s">>>>,
    <<<<"R", "N">>, <<"R", "e", "l", "i", "g", "i", "o", "n">>>>,
    <<<<"S", "O">>, <<"S", "o", "c", "i", "o", "l", "o", "g", "y">>>>,
    <<<<"W", "R">>, <<"W", "r", "i", "t", "i", "n", "g">>>>,
    <<<<"W", "S">>, <<"W", "o", "m", "e", "n", " ", "G", "e", "n", "d", "e", "r", " ", "S", "e", "x", "u", "a", "l", "i", "t", "y", " ", "S", "t", "u", "d", "i", "e", "s">>>>,
    <<<<"L", "F">>, <<"F", "r", "e", "n", "c", "h">>>>,
    <<<<"L", "G">>, <<"G", "e", "r", "m", "a", "n">>>>,
    <<<<"L", "I">>, <<"I", "t", "a", "l", "i", "a", "n">>>>,
    <<<<"L", "S">>, <<"S", "p", "a", "n", "i", "s", "h">>>>,
    <<<<"L", "R">>, <<"R", "u", "s", "s", "i", "a", "n">>>>,
    <<<<"L", "Y">>, <<"A", "r", "a", "b", "i", "c">>>>,
    <<<<"L", "C">>, <<"C", "h", "i", "n", "e", "s", "e">>>>,
    <<<<"L", "J">>, <<"J", "a", "p", "a", "n", "e", "s", "e">>>>,
    <<<<"L", "K">>, <<"K", "o", "r", "e", "a", "n">>>>,
    <<<<"A", "C">>, <<"A", "c", "c", "o", "u", "n", "t", "i", "n", "g">>>>,
    <<<<"B", "A">>, <<"B", "u", "s", "i", "n", "e", "s", "s", " ", "A", "d", "m", "i", "n", "i", "s", "t", "r", "a", "t", "i", "o", "n">>>>,
    <<<<"B", "E">>, <<"B", "i", "o", "m", "e", "d", "i", "c", "a", "l", " ", "E", "n", "g", "i", "n", "e", "e", "r", "i", "n", "g">>>>,
    <<<<"B", "F">>, <<"B", "i", "o", "i", "n", "f", "o", "r", "m", "a", "t", "i", "c", "s">>>>,
    <<<<"D", "S">>, <<"D", "a", "t", "a", " ", "S", "c", "i", "e", "n", "c", "e">>>>,
    <<<<"F", "T">>, <<"F", "i", "l", "m", " ", "T", "e", "l", "e", "v", "i", "s", "i", "o", "n">>>>,
    <<<<"J", "O">>, <<"J", "o", "u", "r", "n", "a", "l", "i", "s", "m">>>>>>

\* get_department_name: DEPT_CODE_TO_NAME.get(code.upper(), code)
get_department_name(code) ==
  IF \E r \in 1..Len(DEPT_CODE_TO_NAME) : DEPT_CODE_TO_NAME[r][1] = upper(code)
  THEN DEPT_CODE_TO_NAME[CHOOSE r \in 1..Len(DEPT_CODE_TO_NAME) :
                           DEPT_CODE_TO_NAME[r][1] = upper(code)][2]
  ELSE code

\* the characters of a Hub unit, which the sections carry as a whole string
chars(hub) ==
  CASE hub = "QR1" -> <<"Q", "R", "1">>
    [] hub = "CT" -> <<"C", "T">>

\* " ".join(parts)
RECURSIVE join(_)
join(parts) ==
  IF parts = <<>> THEN <<>>
  ELSE IF Len(parts) = 1 THEN parts[1]
  ELSE parts[1] \o <<" ">> \o join(Tail(parts))

\* src/models.py Course.search_text
search_text(c) ==
  join(<<c.code, c.title, c.professor, c.department,
         join([h \in 1..Len(c.hub_units) |-> chars(c.hub_units[h])])>>)

\* lines 181-186: the search text of a section of the index
index_text(c) ==
  join(<<search_text(c), get_department_name(c.department),
         lower(replace_all(c.code, <<" ">>))>>)

\* str.split(): the whitespace-separated tokens
RECURSIVE tokens(_)
tokens(s) ==
  IF first_token(s) = <<>> THEN <<>>
  ELSE <<first_token(s)>>
         \o tokens(SubSeq(lstrip(s), Len(first_token(s)) + 1, Len(lstrip(s))))

\* the keys of the prefix index that section course is indexed under
prefix_keys(course) ==
  {SubSeq(tokens(upper(course.code))[p], 1, 2) :
     p \in {q \in 1..Len(tokens(upper(course.code))) : Len(tokens(upper(course.code))[q]) >= 2}}
  \cup (IF course.department # <<>> THEN {upper(course.department)} ELSE {})

\* CourseIndex._build_prefix_index
_build_prefix_index(cs) ==
  [p \in UNION {prefix_keys(cs[i]) : i \in 1..Len(cs)} |->
     {i - 1 : i \in {j \in 1..Len(cs) : p \in prefix_keys(cs[j])}}]

\* the value None, as a record so that it compares with a section
None == [none |-> TRUE]

\* {c.id: c for c in courses}: of the sections with one id the dict keeps the last
by_id_of(cs) ==
  [id \in {cs[i].id : i \in 1..Len(cs)} |->
     cs[CHOOSE i \in 1..Len(cs) : cs[i].id = id /\ \A j \in 1..Len(cs) : cs[j].id = id => j <= i]]

\* CourseIndex.__init__
CourseIndex(cs) ==
  [courses |-> cs, by_id |-> by_id_of(cs),
   search_texts |-> [i \in 1..Len(cs) |-> index_text(cs[i])],
   trigram_index |-> add_from(TrigramIndex, [i \in 1..Len(cs) |-> index_text(cs[i])], 1),
   bitmap_index |-> build(cs),
   sorted_by |-> _build_sort_indices(cs),
   prefix_index |-> _build_prefix_index(cs)]

\* a variant of get_by_id that answers a miss with the first section of the index
get_by_id_or_first(self, course_id) ==
  IF course_id \in DOMAIN self.by_id THEN self.by_id[course_id] ELSE self.courses[1]

\* CourseIndex.get_by_id: self.by_id.get(course_id)
get_by_id(self, course_id) ==
  IF course_id \in DOMAIN self.by_id THEN self.by_id[course_id] ELSE None

\* list[:limit]
slice_to(s, limit) ==
  IF limit >= 0 THEN SubSeq(s, 1, Min(limit, Len(s)))
  ELSE SubSeq(s, 1, Max(Len(s) + limit, 0))

\* sorted(ids) for a set of ordinals
RECURSIVE sorted_ids_of(_)
sorted_ids_of(ids) ==
  IF ids = {} THEN <<>>
  ELSE LET m == CHOOSE i \in ids : \A j \in ids : i <= j
       IN  <<m>> \o sorted_ids_of(ids \ {m})

\* a variant of _get_sorted that always takes the ordinals in ascending order
_get_sorted_by_ordinal(self, ids, sort_by, limit) ==
  LET page == slice_to(sorted_ids_of(ids), limit)
  IN  [k \in 1..Len(page) |-> self.courses[page[k] + 1]]

\* CourseIndex._get_sorted
_get_sorted(self, ids, sort_by, limit) ==
  LET sorted_ids == IF sort_by \in DOMAIN self.sorted_by
                    THEN SelectSeq(self.sorted_by[sort_by], LAMBDA i : i \in ids)
                    ELSE sorted_ids_of(ids)
      page == slice_to(sorted_ids, limit)
  IN  [k \in 1..Len(page) |-> self.courses[page[k] + 1]]

\* CourseIndex.search for a query that is empty once stripped
search(self, query, sort_by, limit, filters) ==
  LET candidate_ids == filter(self.bitmap_index, filters)
  IN  _get_sorted(self, candidate_ids, sort_by, limit)

\* str.startswith
startswith(s, prefix) == Len(prefix) <= Len(s) /\ SubSeq(s, 1, Len(prefix)) = prefix

\* CourseIndex._prefix_lookup
_prefix_lookup(self, prefix) ==
  IF prefix \in DOMAIN self.prefix_index THEN self.prefix_index[prefix]
  ELSE UNION {self.prefix_index[p] : p \in {q \in DOMAIN self.prefix_index : startswith(q, prefix)}}

\* CourseIndex._get_query_candidates
_get_query_candidates(self, query) ==
  IF Len(query) < 3 THEN _prefix_lookup(self, upper(query))
  ELSE get_candidates(self.trigram_index, query, Max(1, Len(query) \div 4))

\* a variant of extract that keeps the first choices in the order they are given
extract_unsorted(scores, candidate_indices, limit) ==
  IF limit <= 0 THEN <<>> ELSE SubSeq(candidate_indices, 1, Min(limit, Len(candidate_indices)))

\* rapidfuzz process.extract(query, choices, scorer, limit) of lines 304-309: the limit
\* best choices, the higher score first and the earlier choice first among equal scores;
\* scores[i] stands for the result of the scorer on the text of ordinal i
extract(scores, candidate_indices, limit) ==
  IF limit <= 0 THEN <<>>
  ELSE SubSeq(stable_sort(candidate_indices,
                [i \in 1..Len(candidate_indices) |-> [j \in 1..Len(candidate_indices) |->
                   scores[candidate_indices[i]] >= scores[candidate_indices[j]]]]),
              1, Min(limit, Len(candidate_indices)))

\* lines 311-317: the results scoring above 50, sorted by score, cut to the limit
top_matches(self, scores, results, limit) ==
  [k \in 1..Len(slice_to(SelectSeq(results, LAMBDA i : scores[i] > 50), limit)) |->
     self.courses[slice_to(SelectSeq(results, LAMBDA i : scores[i] > 50), limit)[k] + 1]]

\* matched.sort(key=lambda x: -x[1]) of line 315
sort_matched(scores, results) ==
  stable_sort(results,
    [i \in 1..Len(results) |-> [j \in 1..Len(results) |-> -scores[results[i]] <= -scores[results[j]]]])

\* CourseIndex._fuzzy_match, with the scores that fuzz.partial_ratio gives the candidates
_fuzzy_match(self, scores, candidate_ids, limit) ==
  top_matches(self, scores,
    sort_matched(scores,
      extract(scores, sorted_ids_of(candidate_ids), Min(limit * 2, Cardinality(candidate_ids)))),
    limit)

\* line 273 of CourseIndex.search: the candidates of a query that is not empty
query_candidates(self, query, filters) ==
  filter(self.bitmap_index, filters) \cap _get_query_candidates(self, strip(query))

\* a variant in which the set that is narrowed in place is the one _prefix_lookup returned
index_after_query_aliased(self, query, filters) ==
  IF Len(strip(query)) < 3 /\ upper(strip(query)) \in DOMAIN self.prefix_index
  THEN [self EXCEPT !.prefix_index[upper(strip(query))] =
                      @ \cap filter(self.bitmap_index, filters)]
  ELSE self

\* the index after lines 270-273 of search (508-512 of search_grouped): the set that
\* `candidate_ids &= ...` narrows in place is the one filter returned, a set of its own
\* (set(result)), so that no set of the index is touched
index_after_query(self, query, filters) == self

\* CourseIndex.search for a query that is not empty once stripped
search_query(self, query, limit, filters, scores) ==
  IF query_candidates(self, query, filters) = {} THEN <<>>
  ELSE _fuzzy_match(self, scores, query_candidates(self, query, filters), limit)

----------------------------------------------------------------------------
(* src/search.py: the grouping of sections *)

\* src/utils/constants.py
PRIMARY_SECTION_TYPES ==
  {"Lecture", "IND", "DRS", "EXP", "MUO", "PLB", "THP", "OTH", "MUE", ""}
SECONDARY_SECTION_TYPES == {"Discussion", "Laboratory"}

\* str.isalpha() for one character
IsAlpha(c) == (\E i \in 1..26 : LowerCase[i] = c) \/ (\E i \in 1..26 : UpperCase[i] = c)

\* the loop of _get_section_prefix: the letters in front of the first other character
RECURSIVE leading_letters(_)
leading_letters(s) ==
  IF s # <<>> /\ IsAlpha(Head(s)) THEN <<Head(s)>> \o leading_letters(Tail(s)) ELSE <<>>

\* CourseIndex._get_section_prefix
_get_section_prefix(section) == upper(leading_letters(section))

\* the loop of _section_sort_key over the characters that are left
RECURSIVE sort_key_scan(_, _, _)
sort_key_scan(rest, prefix, num_str) ==
  IF rest = <<>> THEN [prefix |-> prefix, num_str |-> num_str]
  ELSE IF IsAlpha(Head(rest))
  THEN sort_key_scan(Tail(rest),
                     IF num_str = <<>> THEN Append(prefix, Head(rest)) ELSE prefix, num_str)
  ELSE IF IsDigitChar(Head(rest))
  THEN sort_key_scan(Tail(rest), prefix, Append(num_str, Head(rest)))
  ELSE sort_key_scan(Tail(rest), prefix, num_str)

\* the last two lines of _section_sort_key, for the outcome of the loop
sort_key_of(scanned) ==
  [prefix |-> upper(scanned.prefix),
   num |-> IF scanned.num_str # <<>> THEN DecimalValue(scanned.num_str) ELSE 0]

\* CourseIndex._section_sort_key
_section_sort_key(section) == sort_key_of(sort_key_scan(section, <<>>, <<>>))

\* a <= b for the section types of related sections, as Python compares the two strings
section_type_le(a, b) == a = b \/ (a = "Discussion" /\ b = "Laboratory")

\* (prefix, num) <= (prefix, num) for two keys of _section_sort_key
sort_key_le(a, b) ==
  IF a.prefix # b.prefix THEN str_le(a.prefix, b.prefix) ELSE a.num <= b.num

\* the order of related.sort(key=lambda s: (s.section_type, self._section_sort_key(s.section)))
related_le(a, b) ==
  IF a.section_type # b.section_type THEN section_type_le(a.section_type, b.section_type)
  ELSE sort_key_le(_section_sort_key(a.section), _section_sort_key(b.section))

\* RelatedSection(...) as built from a secondary section
RelatedSection(sec) ==
  [id |-> sec.id, section |-> sec.section, section_type |-> sec.section_type,
   professor |-> sec.professor, schedule |-> sec.schedule, status |-> sec.status]

\* GroupedCourse.from_course (src/models.py)
from_course(course, related) ==
  [id |-> course.id, code |-> course.code, title |-> course.title, section |-> course.section,
   professor |-> course.professor, term |-> course.term, credits |-> course.credits,
   hub_units |-> course.hub_units, department |-> course.department,
   college |-> course.college, schedule |-> course.schedule, status |-> course.status,
   section_type |-> course.section_type, related_sections |-> related]

\* the keys of by_code_term in the order in which the dict receives them
code_term_keys(cs) ==
  LET firsts == {i \in 1..Len(cs) :
                   \A j \in 1..(i - 1) : cs[j].code # cs[i].code \/ cs[j].term # cs[i].term}
      order == sorted_ids_of(firsts)
  IN  [k \in 1..Len(order) |-> [code |-> cs[order[k]].code, term |-> cs[order[k]].term]]

\* a variant of split_group that promotes the last secondary section instead of the first
split_group_promote_last(primaries, secondaries) ==
  IF primaries = <<>> /\ secondaries # <<>>
  THEN [primaries |-> <<secondaries[Len(secondaries)]>>,
        secondaries |-> SubSeq(secondaries, 1, Len(secondaries) - 1)]
  ELSE [primaries |-> primaries, secondaries |-> secondaries]

\* lines 427-433: the primaries and the secondaries of a partition
split_group(primaries, secondaries) ==
  IF primaries = <<>> /\ secondaries # <<>>
  THEN [primaries |-> <<secondaries[1]>>, secondaries |-> Tail(secondaries)]
  ELSE [primaries |-> primaries, secondaries |-> secondaries]

\* a variant that keeps the last primary seen with a prefix
matched_primary_last(primaries, sec_prefix) ==
  LET hits == {i \in 1..Len(primaries) : _get_section_prefix(primaries[i].section) = sec_prefix}
  IN  IF sec_prefix = <<>> \/ hits = {} THEN 0
      ELSE CHOOSE i \in hits : \A j \in hits : i >= j

\* lines 436-440 and 448: prefix_to_primary.get(sec_prefix), as the position of the
\* primary among the primaries, 0 standing for None
matched_primary(primaries, sec_prefix) ==
  LET hits == {i \in 1..Len(primaries) : _get_section_prefix(primaries[i].section) = sec_prefix}
  IN  IF sec_prefix = <<>> \/ hits = {} THEN 0
      ELSE CHOOSE i \in hits : \A j \in hits : i <= j

\* n references to the element x, one after the other
repeat(x, n) == [k \in 1..n |-> x]

\* lines 443-482: primary_to_related[id] before it is sorted: the secondaries matched to
\* a primary with this id, then every unmatched secondary once for each primary with this id
related_of(primaries, secondaries, id) ==
  Flatten([s \in 1..Len(secondaries) |->
    IF matched_primary(primaries, _get_section_prefix(secondaries[s].section)) # 0
       /\ primaries[matched_primary(primaries,
                      _get_section_prefix(secondaries[s].section))].id = id
    THEN <<RelatedSection(secondaries[s])>>
    ELSE <<>>])
  \o
  Flatten([s \in 1..Len(secondaries) |->
    IF matched_primary(primaries, _get_section_prefix(secondaries[s].section)) = 0
    THEN repeat(RelatedSection(secondaries[s]),
                Cardinality({p \in 1..Len(primaries) : primaries[p].id = id}))
    ELSE <<>>])

\* related.sort(...) of line 488
sort_related(related) ==
  stable_sort(related,
    [i \in 1..Len(related) |-> [j \in 1..Len(related) |-> related_le(related[i], related[j])]])

\* lines 485-489: the groups of a partition, one for each primary
groups_of(parts) ==
  [p \in 1..Len(parts.primaries) |->
     from_course(parts.primaries[p],
                 sort_related(related_of(parts.primaries, parts.secondaries,
                                         parts.primaries[p].id)))]

\* the body of the loop of line 425 for the partition group
group_partition(group) ==
  groups_of(split_group(
    SelectSeq(group, LAMBDA c : c.section_type \in PRIMARY_SECTION_TYPES),
    SelectSeq(group, LAMBDA c : c.section_type \in SECONDARY_SECTION_TYPES)))

\* the loop of line 425 over the partitions by_code_term[key] of the given keys
group_by_keys(cs, keys) ==
  Flatten([k \in 1..Len(keys) |->
    group_partition(SelectSeq(cs, LAMBDA c : c.code = keys[k].code /\ c.term = keys[k].term))])

\* CourseIndex.group_sections
group_sections(cs) == group_by_keys(cs, code_term_keys(cs))

----------------------------------------------------------------------------
(* src/search.py: CourseIndex.search_grouped *)

\* lines 508-518: the sections that match the query and the filters, in the order of
\* the fuzzy match or of the sort index
matched_courses(self, query, sort_by, filters, scores) ==
  IF strip(query) # <<>>
  THEN _fuzzy_match(self, scores, query_candidates(self, query, filters),
                    Cardinality(query_candidates(self, query, filters)))
  ELSE _get_sorted(self, filter(self.bitmap_index, filters), sort_by,
                   Cardinality(filter(self.bitmap_index, filters)))

\* lines 523-527: grouped.sort by code or by title.lower(), else the order is kept
sort_grouped(grouped, sort_by) ==
  IF sort_by = "code"
  THEN stable_sort(grouped, [i \in 1..Len(grouped) |-> [j \in 1..Len(grouped) |->
                               str_le(grouped[i].code, grouped[j].code)]])
  ELSE IF sort_by = "title"
  THEN stable_sort(grouped, [i \in 1..Len(grouped) |-> [j \in 1..Len(grouped) |->
                               str_le(lower(grouped[i].title), lower(grouped[j].title))]])
  ELSE grouped

\* list[start:stop] for start >= 0
slice(s, start, stop) ==
  IF stop >= 0 THEN SubSeq(s, start + 1, Min(stop, Len(s)))
  ELSE SubSeq(s, start + 1, Len(s) + stop)

\* a variant of paginate that counts the groups of the page
paginate_page_total(grouped, limit, offset) ==
  [page |-> slice(grouped, offset, offset + limit),
   total |-> Len(slice(grouped, offset, offset + limit))]

\* lines 529-535: (paginated, total)
paginate(grouped, limit, offset) ==
  [page |-> slice(grouped, offset, offset + limit), total |-> Len(grouped)]

\* CourseIndex.search_grouped
search_grouped(self, query, sort_by, limit, offset, filters, scores) ==
  IF strip(query) # <<>> /\ query_candidates(self, query, filters) = {}
  THEN [page |-> <<>>, total |-> 0]
  ELSE paginate(sort_grouped(group_sections(matched_courses(self, query, sort_by, filters, scores)),
                             sort_by),
                limit, offset)

----------------------------------------------------------------------------
(* src/search.py: CourseIndex.detect_conflicts *)

\* the first loop of parse_days_to_set: [result, days] after the codes k..4 are tried
SetTwoLetterCodes == << <<"T", "U">>, <<"T", "H">>, <<"S", "A">>, <<"S", "U">> >>
RECURSIVE set_two_letter_pass(_, _, _)
set_two_letter_pass(result, days, k) ==
  IF k > Len(SetTwoLetterCodes) THEN [result |-> result, days |-> days]
  ELSE IF contains(days, SetTwoLetterCodes[k])
  THEN set_two_letter_pass(result \cup {SetTwoLetterCodes[k]},
                           replace_all(days, SetTwoLetterCodes[k]), k + 1)
  ELSE set_two_letter_pass(result, days, k + 1)

\* the second loop of parse_days_to_set: the characters left that are in "MTWFS"
single_letters(days) ==
  {<<days[i]>> : i \in {j \in 1..Len(days) : days[j] \in {"M", "T", "W", "F", "S"}}}

\* src/utils/parsing.py parse_days_to_set
parse_days_to_set(days_str) ==
  set_two_letter_pass({}, upper(days_str), 1).result
    \cup single_letters(set_two_letter_pass({}, upper(days_str), 1).days)

\* sorted(common) for a set of strings
RECURSIVE sorted_strs(_)
sorted_strs(strs) ==
  IF strs = {} THEN <<>>
  ELSE <<CHOOSE s \in strs : \A t \in strs : str_le(s, t)>>
         \o sorted_strs(strs \ {CHOOSE s \in strs : \A t \in strs : str_le(s, t)})

\* ", ".join(parts)
RECURSIVE join_comma(_)
join_comma(parts) ==
  IF parts = <<>> THEN <<>>
  ELSE IF Len(parts) = 1 THEN parts[1]
  ELSE parts[1] \o <<",", " ">> \o join_comma(Tail(parts))

\* common = d1 & d2 of _days_overlap
common_days(days1, days2) == parse_days_to_set(days1) \cap parse_days_to_set(days2)

\* CourseIndex._days_overlap: None when no day is common, else a string that is not empty
_days_overlap(days1, days2) ==
  IF common_days(days1, days2) # {} THEN join_comma(sorted_strs(common_days(days1, days2)))
  ELSE None

\* s1 < e2 and s2 < e1 of the four parsed times, or Raised when one of them raised
times_compare(s1, e1, s2, e2) ==
  IF Raised \in {s1, e1, s2, e2} THEN Raised
  ELSE IF s1 < e2 /\ s2 < e1 THEN 1 ELSE 0

\* CourseIndex._times_overlap: 1 for True, 0 for False, Raised for an exception
_times_overlap(m1, m2) ==
  times_compare(parse_time_to_minutes(m1.start_time), parse_time_to_minutes(m1.end_time),
                parse_time_to_minutes(m2.start_time), parse_time_to_minutes(m2.end_time))

\* src/models.py Conflict as built by _check_conflict
Conflict(c1, c2, overlap_day, m1) ==
  [course1_id |-> c1.id, course2_id |-> c2.id,
   course1_code |-> c1.code, course2_code |-> c2.code,
   overlap_day |-> overlap_day,
   overlap_time |-> m1.start_time \o <<"-">> \o m1.end_time]

\* the loops of _check_conflict from the meetings a of c1 and b of c2 on: a Conflict,
\* None, or [raised |-> TRUE] when a time of an examined pair of meetings raised;
\* overlap_day is None exactly when no day is common
RECURSIVE check_from(_, _, _, _)
check_from(c1, c2, a, b) ==
  IF a > Len(c1.schedule) THEN None
  ELSE IF b > Len(c2.schedule) THEN check_from(c1, c2, a + 1, 1)
  ELSE IF common_days(c1.schedule[a].days, c2.schedule[b].days) = {}
       THEN check_from(c1, c2, a, b + 1)
  ELSE IF _times_overlap(c1.schedule[a], c2.schedule[b]) = Raised THEN [raised |-> TRUE]
  ELSE IF _times_overlap(c1.schedule[a], c2.schedule[b]) = 1
       THEN Conflict(c1, c2, _days_overlap(c1.schedule[a].days, c2.schedule[b].days),
                     c1.schedule[a])
  ELSE check_from(c1, c2, a, b + 1)

\* a variant of _check_conflict that looks at the first meeting of each section only
_check_conflict_first_meetings(c1, c2) ==
  IF c1.schedule = <<>> \/ c2.schedule = <<>> THEN None
  ELSE check_from([c1 EXCEPT !.schedule = <<c1.schedule[1]>>],
                  [c2 EXCEPT !.schedule = <<c2.schedule[1]>>], 1, 1)

\* CourseIndex._check_conflict
_check_conflict(c1, c2) == check_from(c1, c2, 1, 1)

\* _check_conflict of every two sections that detect_conflicts is called with, computed once
catalog_check ==
  [c1 \in ConflictCatalog |-> [c2 \in ConflictCatalog |-> _check_conflict(c1, c2)]]

\* the body of the inner loop of detect_conflicts, for the result of _check_conflict
RECURSIVE detect_from(_, _, _, _)
detect_with(cs, i, j, conflicts, conflict) ==
  IF conflict = [raised |-> TRUE] THEN [raised |-> TRUE, conflicts |-> <<>>]
  ELSE IF conflict = None THEN detect_from(cs, i, j + 1, conflicts)
  ELSE detect_from(cs, i, j + 1, Append(conflicts, conflict))

\* the loops of detect_conflicts from the positions i and j on, with the conflicts so far
detect_from(cs, i, j, conflicts) ==
  IF i > Len(cs) THEN [raised |-> FALSE, conflicts |-> conflicts]
  ELSE IF j > Len(cs) THEN detect_from(cs, i + 1, i + 2, conflicts)
  ELSE detect_with(cs, i, j, conflicts, catalog_check[cs[i]][cs[j]])

\* CourseIndex.detect_conflicts
detect_conflicts(cs) == detect_from(cs, 1, 2, <<>>)

----------------------------------------------------------------------------
(* The schedule engine as a state machine: one action per public operation *)

\* what ret holds for an operation: its name, its argument, whether it raised, its value
Returned(op, arg, val) == [op |-> op, arg |-> arg, raised |-> FALSE, val |-> val]
RaisedIn(op, arg) == [op |-> op, arg |-> arg, raised |-> TRUE, val |-> "exception"]

InitEngine ==
  /\ courses = <<>>
  /\ _color_index = 0
  /\ ret = Returned("init", "none", "none")
  /\ prev = <<>>

\* add_course: _detect_conflicts_with expands the new section first, so a section
\* whose times do not parse raises before anything is stored
AddCourse(course) ==
  /\ has_key(courses, course.id) \/ Len(courses) < MaxCourses
  /\ prev' = courses
  /\ IF catalog_raises[course]
     THEN /\ ret' = RaisedIn("add_course", course)
          /\ UNCHANGED <<courses, _color_index>>
     ELSE /\ ret' = Returned("add_course", course, add_course(courses, course).conflicts)
          /\ courses' = add_course(courses, course).courses
          /\ UNCHANGED _color_index

RemoveCourse(course_id) ==
  /\ prev' = courses
  /\ IF has_key(courses, course_id)
     THEN /\ courses' = dict_del(courses, course_id)
          /\ ret' = Returned("remove_course", course_id, TRUE)
     ELSE /\ ret' = Returned("remove_course", course_id, FALSE)
          /\ UNCHANGED courses
  /\ UNCHANGED _color_index

GetCourse(course_id) ==
  /\ prev' = courses
  /\ ret' = Returned("get_course", course_id, dict_get(courses, course_id))
  /\ UNCHANGED <<courses, _color_index>>

Clear ==
  /\ prev' = courses
  /\ courses' = <<>>
  /\ _color_index' = 0
  /\ ret' = Returned("clear", "none", "none")

GetEvents ==
  /\ prev' = courses
  /\ \E called \in {get_events(courses, _color_index)} :
       /\ ret' = Returned("get_events", "none", called.result)
       /\ _color_index' = called._color_index
  /\ UNCHANGED courses

GetEventsByDay ==
  /\ prev' = courses
  /\ \E called \in {get_events_by_day(courses, _color_index)} :
       /\ ret' = Returned("get_events_by_day", "none", called.result)
       /\ _color_index' = called._color_index
  /\ UNCHANGED courses

GetAllConflicts ==
  /\ prev' = courses
  /\ ret' = Returned("get_all_conflicts", "none", get_all_conflicts(courses))
  /\ UNCHANGED <<courses, _color_index>>

ToDict ==
  /\ prev' = courses
  /\ \E called \in {get_events(courses, _color_index)} :
       /\ ret' = Returned("to_dict", "none", to_dict_of(courses, called.result))
       /\ _color_index' = called._color_index
  /\ UNCHANGED courses

\* the catalog snapshots an index is built from
Snapshots ==
  {<<CourseA, CourseB, CourseD, CourseE, CourseF, CourseG, CourseH, CourseI>>,
   <<CourseF, CourseD, CourseB>>,
   <<CourseH>>}

\* no query has been made of the index
NoQuery == [op |-> "none"]

InitIndex ==
  /\ idx \in {CourseIndex(snapshot) : snapshot \in Snapshots}
  /\ req = NoQuery
  /\ out = "none"

\* the engine reads nothing of the index: it runs next to the smallest one
Init ==
  /\ InitEngine
  /\ idx = CourseIndex(<<CourseH>>)
  /\ req = NoQuery
  /\ out = "none"

\* the ids asked of remove_course and get_course: the ids of the sections held and one
\* id of no section (every id that is not held takes the same path)
AskedIds == {courses[i].id : i \in 1..Len(courses)} \cup {"Z"}

Next ==
  \/ \E course \in CatalogSet : AddCourse(course) /\ UNCHANGED indexVars
  \/ \E course_id \in AskedIds : RemoveCourse(course_id) /\ UNCHANGED indexVars
  \/ \E course_id \in AskedIds : GetCourse(course_id) /\ UNCHANGED indexVars
  \/ Clear /\ UNCHANGED indexVars
  \/ GetEvents /\ UNCHANGED indexVars
  \/ GetEventsByDay /\ UNCHANGED indexVars
  \/ GetAllConflicts /\ UNCHANGED indexVars
  \/ ToDict /\ UNCHANGED indexVars

Spec == Init /\ [][Next]_vars

----------------------------------------------------------------------------
(* Properties of the schedule engine *)

\* the positions of the list events whose event is on the weekday day
DayPositions(events, day) == {k \in 1..Len(events) : events[k].day = day}

\* two events share a day and their times overlap, stated on the fields
SameDayOverlap(e1, e2) ==
  /\ e1.day = e2.day
  /\ e1.start_minutes < e2.end_minutes
  /\ e2.start_minutes < e1.end_minutes

IsConflictList(r) == ~r.raised /\ r.op \in {"add_course", "get_all_conflicts"}

\* C1: in the list returned by get_events, two distinct events on the same day that
\* overlap in time are in different columns
C1_OverlappingEventsInDistinctColumns ==
  ret.op = "get_events" =>
    \A i, j \in 1..Len(ret.val) :
      (i # j /\ SameDayOverlap(ret.val[i], ret.val[j])) => ret.val[i].column # ret.val[j].column

\* get_events returned two overlapping events of one day
C1_Witness ==
  /\ ret.op = "get_events"
  /\ \E i, j \in 1..Len(ret.val) :
       /\ i # j
       /\ SameDayOverlap(ret.val[i], ret.val[j])
       /\ ret.val[i].column # ret.val[j].column

\* C2: every conflict returned by add_course or get_all_conflicts is between events of
\* two distinct sections, also when the section added has an id that is already present
C2_ConflictsBetweenDistinctSections ==
  IsConflictList(ret) =>
    \A k \in 1..Len(ret.val) : ret.val[k].event1.course_id # ret.val[k].event2.course_id

\* the events of one weekday, in the order of the list
DayEvents(events, day) == SelectSeq(events, LAMBDA e : e.day = day)

\* (i, c, j): event i of the section added overlaps event j of the c-th section that
\* was present when add_course was called
NewConflictTriples(s, before) ==
  UNION {UNION {{<<i, c, j>> : j \in {j \in 1..Len(events_of(before[c], "temp")) :
                    SameDayOverlap(events_of(s, "temp")[i], events_of(before[c], "temp")[j])}}
                : c \in 1..Len(before)}
         : i \in 1..Len(events_of(s, "temp"))}

\* C3: add_course(s) returns exactly one conflict for each pair (event of s, event of a
\* section present before the call) that share a day and overlap, with the overlap from
\* the maximum of the starts to the minimum of the ends, and then holds s under s.id, so
\* that get_course, get_events and to_dict in the state reached observe s
C3_AddReturnsConflictsThenStores ==
  (ret.op = "add_course" /\ ~ret.raised) =>
    LET s == ret.arg
        new == events_of(s, "temp")
        triples == NewConflictTriples(s, prev)
    IN  /\ has_key(courses, s.id)
        /\ Len(ret.val) = Cardinality(triples)
        /\ \A t \in triples : \E k \in 1..Len(ret.val) :
             /\ ret.val[k].event1 = new[t[1]]
             /\ ret.val[k].event2 = events_of(prev[t[2]], "temp")[t[3]]
        /\ \A k \in 1..Len(ret.val) :
             LET c == ret.val[k]
             IN  /\ c.event1.course_id = s.id
                 /\ \E j \in 1..Len(prev) : c.event2.course_id = prev[j].id
                 /\ SameDayOverlap(c.event1, c.event2)
                 /\ c.day = c.event1.day
                 /\ c.overlap_start >= c.event1.start_minutes
                 /\ c.overlap_start >= c.event2.start_minutes
                 /\ c.overlap_start \in {c.event1.start_minutes, c.event2.start_minutes}
                 /\ c.overlap_end <= c.event1.end_minutes
                 /\ c.overlap_end <= c.event2.end_minutes
                 /\ c.overlap_end \in {c.event1.end_minutes, c.event2.end_minutes}
        /\ dict_get(courses, s.id) = s
        /\ LET exported == to_dict(courses, _color_index)
               all == get_all_conflicts(courses)
           IN  /\ \E k \in 1..Len(exported.courses) : exported.courses[k].id = s.id
               /\ \A i \in 1..Len(new) : \E k \in 1..Len(exported.events) :
                    /\ exported.events[k].course_id = s.id
                    /\ exported.events[k].day = new[i].day
                    /\ exported.events[k].start_minutes = new[i].start_minutes
                    /\ exported.events[k].end_minutes = new[i].end_minutes
               /\ ~has_key(prev, s.id) =>
                    \A k \in 1..Len(ret.val) : \E j \in 1..Len(all) :
                      all[j].event1 = ret.val[k].event2 /\ all[j].event2 = ret.val[k].event1

\* add_course returned a conflict whose overlap starts later than one event and ends
\* earlier than the other
C3_Witness ==
  /\ ret.op = "add_course"
  /\ ~ret.raised
  /\ prev # <<>>
  /\ \E k \in 1..Len(ret.val) :
       /\ ret.val[k].event1.start_minutes # ret.val[k].event2.start_minutes
       /\ ret.val[k].event1.end_minutes # ret.val[k].event2.end_minutes
  /\ dict_get(courses, ret.arg.id) = ret.arg

\* the start and end times, in minutes, of the events of a list
Times(events) == [k \in 1..Len(events) |-> <<events[k].start_minutes, events[k].end_minutes>>]
Columns(events) == [k \in 1..Len(events) |-> events[k].column]

\* the column the greedy rule gives to event k of a day's list, from the columns of the
\* events before it
GreedyColumn(L, k) ==
  LET used == {L[j].column : j \in 1..(k - 1)}
      last(c) == L[CHOOSE j \in 1..(k - 1) :
                     L[j].column = c /\ \A i \in 1..(k - 1) : L[i].column = c => i <= j]
      open == {c \in used : last(c).end_minutes <= L[k].start_minutes}
  IN  IF open = {} THEN Cardinality(used)
      ELSE CHOOSE c \in open : \A d \in open : c <= d

\* C7: a day's events are in (start, end) ascending order and each event has the lowest
\* column whose last event ends at or before the event's start, a new column being
\* opened only when there is none; events 12:00-13:00, 12:30-14:00, 13:30-15:00 of one
\* day get the columns 0, 1, 0
C7_GreedyLowestColumn ==
  ret.op = "get_events" =>
    \A d \in 1..Len(DAY_ORDER) :
      LET L == DayEvents(ret.val, DAY_ORDER[d])
      IN  /\ \A k \in 1..(Len(L) - 1) :
               \/ L[k].start_minutes < L[k + 1].start_minutes
               \/ /\ L[k].start_minutes = L[k + 1].start_minutes
                  /\ L[k].end_minutes <= L[k + 1].end_minutes
          /\ \A k \in 1..Len(L) : L[k].column = GreedyColumn(L, k)
          /\ Times(L) = << <<720, 780>>, <<750, 840>>, <<810, 900>> >> => Columns(L) = <<0, 1, 0>>

\* get_events laid out the three events 12:00-13:00, 12:30-14:00, 13:30-15:00 of a Tuesday
C7_Witness ==
  /\ ret.op = "get_events"
  /\ Times(DayEvents(ret.val, "Tuesday")) = << <<720, 780>>, <<750, 840>>, <<810, 900>> >>
  /\ Columns(DayEvents(ret.val, "Tuesday")) = <<0, 1, 0>>

\* C8: all events of a weekday carry the same total_columns, the number of distinct
\* columns of that weekday, and every event has 0 <= column < total_columns
C8_TotalColumnsPerDay ==
  ret.op = "get_events" =>
    \A k \in 1..Len(ret.val) :
      LET L == DayEvents(ret.val, ret.val[k].day)
      IN  /\ ret.val[k].total_columns = Cardinality({L[j].column : j \in 1..Len(L)})
          /\ 0 <= ret.val[k].column
          /\ ret.val[k].column < ret.val[k].total_columns

\* get_events returned a weekday with three events in two columns
C8_Witness ==
  /\ ret.op = "get_events"
  /\ \E k \in 1..Len(ret.val) :
       /\ Len(DayEvents(ret.val, ret.val[k].day)) = 3
       /\ ret.val[k].total_columns = 2
       /\ ret.val[k].column = 1

\* the weekday occurrences of a section: (day, start, end, start_time, end_time) for
\* each day of each meeting that has days and a time
Occurrences(course) ==
  UNION {
    LET meeting == course.schedule[m]
        days == parse_days_to_full_names(meeting.days)
    IN  IF meeting_is_tba(meeting) \/ (meeting_start(meeting) = 0 /\ meeting_end(meeting) = 0)
        THEN {}
        ELSE {[day |-> days[d], start |-> meeting_start(meeting), end |-> meeting_end(meeting),
               start_time |-> meeting.start_time, end_time |-> meeting.end_time]
              : d \in 1..Len(days)}
    : m \in 1..Len(course.schedule)}

catalog_occurrences == [c \in CatalogSet |-> Occurrences(c)]
DaySet(course) == {p.day : p \in catalog_occurrences[course]}

\* the pairs of occurrences of c1 and c2 that fall on one weekday at overlapping times
OverlappingOccurrences(c1, c2) ==
  {x \in catalog_occurrences[c1] \X catalog_occurrences[c2] :
     /\ x[1].day = x[2].day
     /\ x[1].start < x[2].end
     /\ x[2].start < x[1].end}

\* the conflict is the one of occurrence p of c1 with occurrence q of c2
ConflictIsOf(c, c1, p, c2, q) ==
  /\ c.event1.course_id = c1.id
  /\ c.event2.course_id = c2.id
  /\ c.day = p.day
  /\ c.event1.day = p.day
  /\ c.event2.day = q.day
  /\ c.event1.start_time = p.start_time
  /\ c.event1.end_time = p.end_time
  /\ c.event2.start_time = q.start_time
  /\ c.event2.end_time = q.end_time

\* C9: get_all_conflicts reports exactly one conflict per shared weekday for each pair of
\* time-overlapping meetings of two present sections, each unordered pair of events once
\* (MWF 10:00-11:00 and MWF 10:30-11:30 give three conflicts, of 30 minutes, on Monday,
\* Wednesday and Friday), and none for two sections whose day sets are disjoint
C9_OneConflictPerSharedDay ==
  ret.op = "get_all_conflicts" =>
    LET n == Len(courses)
        pairs == {ab \in (1..n) \X (1..n) : ab[1] < ab[2]}
        between(ab) == {k \in 1..Len(ret.val) :
                          /\ ret.val[k].event1.course_id = courses[ab[1]].id
                          /\ ret.val[k].event2.course_id = courses[ab[2]].id}
    IN  /\ \A k \in 1..Len(ret.val) : \E ab \in pairs : k \in between(ab)
        /\ \A ab \in pairs :
             LET c1 == courses[ab[1]]
                 c2 == courses[ab[2]]
             IN  /\ Cardinality(between(ab)) = Cardinality(OverlappingOccurrences(c1, c2))
                 /\ \A x \in OverlappingOccurrences(c1, c2) :
                      Cardinality({k \in between(ab) :
                                     ConflictIsOf(ret.val[k], c1, x[1], c2, x[2])}) = 1
                 /\ DaySet(c1) \cap DaySet(c2) = {} => between(ab) = {}
        /\ \A k, j \in 1..Len(ret.val) :
             ~(ret.val[k].event1 = ret.val[j].event2 /\ ret.val[k].event2 = ret.val[j].event1)
        /\ courses \in {<<CourseA, CourseB>>, <<CourseB, CourseA>>} =>
             /\ [k \in 1..Len(ret.val) |-> ret.val[k].day] = <<"Monday", "Wednesday", "Friday">>
             /\ \A k \in 1..Len(ret.val) : overlap_duration(ret.val[k]) = 30

\* get_all_conflicts was called with MWF 10:00-11:00 and MWF 10:30-11:30 present, and
\* with two sections present that meet at the same times on disjoint days
C9_Witness ==
  /\ ret.op = "get_all_conflicts"
  /\ \/ /\ courses = <<CourseA, CourseB>>
        /\ Len(ret.val) = 3
     \/ /\ courses = <<CourseA, CourseH>>
        /\ ret.val = <<>>

\* the mapping after add_course of each section of the list, in order, from the mapping cs
RECURSIVE add_all(_, _)
add_all(cs, sections) ==
  IF sections = <<>> THEN cs
  ELSE add_all(add_course(cs, Head(sections)).courses, Tail(sections))

\* C10: adding the sections listed by to_dict, in their listed order, to an empty engine
\* gives an engine with the same get_events and get_all_conflicts results
C10_ExportReAddRoundTrip ==
  ret.op = "to_dict" =>
    LET listed == [k \in 1..Len(ret.val.courses) |-> dict_get(courses, ret.val.courses[k].id)]
        rebuilt == add_all(<<>>, listed)
    IN  /\ get_events(rebuilt, 0).result = ret.val.events
        /\ get_events(rebuilt, 0).result = get_events(courses, _color_index).result
        /\ get_all_conflicts(rebuilt) = get_all_conflicts(courses)
        /\ to_dict(rebuilt, 0).conflicts = ret.val.conflicts

\* to_dict exported an engine that holds conflicting sections, one of them added twice
C10_Witness ==
  /\ ret.op = "to_dict"
  /\ Len(courses) >= 3
  /\ ret.val.has_conflicts
  /\ \E k \in 1..Len(courses) : courses[k] = CourseA2 /\ k < Len(courses)

\* the mapping cs without its entry at position i
WithoutEntry(cs, i) == SubSeq(cs, 1, i - 1) \o SubSeq(cs, i + 1, Len(cs))

\* C11: remove_course(id) returns true exactly when id was a key of the mapping, and
\* then the mapping is the one before without that entry alone; when id is not a key
\* it returns false, raises nothing and leaves the mapping as it was
C11_RemoveCourseOnlyThatEntry ==
  ret.op = "remove_course" =>
    /\ ~ret.raised
    /\ ret.val = (\E i \in 1..Len(prev) : prev[i].id = ret.arg)
    /\ ret.val => \E i \in 1..Len(prev) : prev[i].id = ret.arg /\ courses = WithoutEntry(prev, i)
    /\ ~ret.val => courses = prev

\* remove_course took an entry from between two others
C11_Witness ==
  /\ ret.op = "remove_course"
  /\ ret.val = TRUE
  /\ Len(prev) = 3
  /\ prev[2].id = ret.arg
  /\ courses = <<prev[1], prev[3]>>

\* remove_course was called with an id that is not a key of a mapping with entries
C11_WitnessAbsent ==
  /\ ret.op = "remove_course"
  /\ ret.val = FALSE
  /\ prev # <<>>
  /\ courses = prev

\* a meeting that the engine is to pass over: no day pattern, the day pattern TBA in any
\* letter case, or a start and an end that both resolve to 0 minutes
SkippedMeeting(meeting) ==
  \/ meeting.days = <<>>
  \/ upper(meeting.days) = <<"T", "B", "A">>
  \/ meeting_start(meeting) = 0 /\ meeting_end(meeting) = 0

\* for each section of the catalog and each of its meetings, the weekdays of the meeting,
\* none for a meeting that is to be passed over
catalog_kept_days ==
  [c \in CatalogSet |->
     [k \in 1..Len(c.schedule) |->
        IF SkippedMeeting(c.schedule[k]) THEN <<>>
        ELSE parse_days_to_full_names(c.schedule[k].days)]]

\* the event e is one of the section c, on a weekday of a meeting of c that is kept
EventOfKeptMeeting(e, c) ==
  /\ e.course_id = c.id
  /\ \E k \in 1..Len(c.schedule) :
       /\ InSeq(e.day, catalog_kept_days[c][k])
       /\ e.start_time = c.schedule[k].start_time
       /\ e.end_time = c.schedule[k].end_time

\* the number of events that the kept meetings of the section c expand to
KeptEventCount(c) == SumSeq([k \in 1..Len(c.schedule) |-> Len(catalog_kept_days[c][k])])

\* every conflict of the list is between an event of a kept meeting of a section of
\* firsts and one of a section of seconds, so that a section without meetings is in none
ConflictsOfKeptMeetings(conflicts, firsts, seconds) ==
  \A k \in 1..Len(conflicts) :
    /\ \E i \in 1..Len(firsts) : EventOfKeptMeeting(conflicts[k].event1, firsts[i])
    /\ \E i \in 1..Len(seconds) : EventOfKeptMeeting(conflicts[k].event2, seconds[i])
    /\ \A i \in 1..Len(firsts) :
         firsts[i].schedule = <<>> => conflicts[k].event1.course_id # firsts[i].id
    /\ \A i \in 1..Len(seconds) :
         seconds[i].schedule = <<>> => conflicts[k].event2.course_id # seconds[i].id

\* C16: a meeting with an empty day pattern, the day pattern TBA in any letter case, or a
\* start and an end that both resolve to 0 minutes gives no event in get_events (each
\* section has exactly the events of its other meetings) and is in no conflict returned
\* by add_course or get_all_conflicts; a section without meetings is in no conflict
C16_SkippedMeetingsGiveNoEvent ==
  /\ ret.op = "get_events" =>
       /\ \A k \in 1..Len(ret.val) :
            \E i \in 1..Len(courses) : EventOfKeptMeeting(ret.val[k], courses[i])
       /\ \A i \in 1..Len(courses) :
            Len(SelectSeq(ret.val, LAMBDA e : e.course_id = courses[i].id))
              = KeptEventCount(courses[i])
  /\ (ret.op = "add_course" /\ ~ret.raised) =>
       ConflictsOfKeptMeetings(ret.val, <<ret.arg>>, prev)
  /\ ret.op = "get_all_conflicts" =>
       ConflictsOfKeptMeetings(ret.val, courses, courses)

\* get_events was called on a mapping that holds a section whose meetings are all to be
\* passed over, a section without meetings and a section with events
C16_Witness ==
  /\ ret.op = "get_events"
  /\ \E i, j \in 1..Len(courses) :
       /\ courses[i].schedule # <<>>
       /\ \A k \in 1..Len(courses[i].schedule) : SkippedMeeting(courses[i].schedule[k])
       /\ \E k \in 1..Len(courses[i].schedule) :
            /\ courses[i].schedule[k].days # <<>>
            /\ upper(courses[i].schedule[k].days) # <<"T", "B", "A">>
       /\ \E k \in 1..Len(courses[i].schedule) :
            /\ courses[i].schedule[k].days # upper(courses[i].schedule[k].days)
            /\ upper(courses[i].schedule[k].days) = <<"T", "B", "A">>
       /\ courses[j].schedule = <<>>
       /\ \A k \in 1..Len(ret.val) : ret.val[k].course_id \notin {courses[i].id, courses[j].id}
  /\ ret.val # <<>>

\* C17 as claimed: parsing never raises, so that add_course, get_events and
\* get_all_conflicts complete without an exception whatever the time and day strings of
\* the section are: no operation of the engine ends in an exception, and the times of the
\* section passed to add_course resolve to a number of minutes
C17_ParsingNeverRaises ==
  /\ ~ret.raised
  /\ ret.op = "add_course" =>
       \A k \in 1..Len(ret.arg.schedule) :
         /\ parse_time_to_minutes(ret.arg.schedule[k].start_time) # Raised
         /\ parse_time_to_minutes(ret.arg.schedule[k].end_time) # Raised

----------------------------------------------------------------------------
(* The index as a state machine: it is built once and then queried *)

\* the largest number of values requested for one field, and of fields with a request
MaxValues == 2
MaxFields == 2

FieldSet == {FilterFields[f] : f \in 1..Len(FilterFields)}

\* the values a query may request for a field: values of the catalog and values that no
\* section carries
RequestValues(field) ==
  CASE field = "subject" -> {<<"C", "S">>, <<"M", "A">>, <<"F", "A", "K", "E">>}
    [] field = "term" -> {"Fall 2025", "Spring 2026", "Summer 2030"}
    [] field = "hub" -> {"QR1", "CT", "XX"}
    [] field = "college" -> {"CAS", "XX"}
    [] field = "status" -> {"Open", "Closed", ""}

\* the sets of at most MaxValues values that may be requested for a field
ValueSets(field) == {vs \in SUBSET RequestValues(field) : Cardinality(vs) <= MaxValues}

Requests ==
  {filters \in
     {[field \in FieldSet |->
         CASE field = "subject" -> subject
           [] field = "term" -> term
           [] field = "hub" -> hub
           [] field = "college" -> college
           [] field = "status" -> status]
      : subject \in ValueSets("subject"), term \in ValueSets("term"), hub \in ValueSets("hub"),
        college \in ValueSets("college"), status \in ValueSets("status")} :
     Cardinality({field \in FieldSet : filters[field] # {}}) <= MaxFields}

\* the queries that are empty once stripped
EmptyQueries == {<<>>, <<" ">>}
SortOrders == {"relevance", "code", "title", "professor", "credits"}
Limits == {1, 2, 100}

InitSpecIndex == InitEngine /\ InitIndex

Filter(filters) ==
  /\ req' = [op |-> "filter", filters |-> filters]
  /\ out' = filter(idx.bitmap_index, filters)
  /\ UNCHANGED idx

Search(query, sort_by, limit, filters) ==
  /\ strip(query) = <<>>
  /\ req' = [op |-> "search", query |-> query, sort_by |-> sort_by, limit |-> limit,
             filters |-> filters]
  /\ out' = search(idx, query, sort_by, limit, filters)
  /\ UNCHANGED idx

\* the largest number of sections in a list passed to group_sections
MaxSections == 4

\* the lists of at most MaxSections different sections
SectionLists ==
  UNION {{sections \in [1..n -> GroupCatalog] :
            \A i, j \in 1..n : i # j => sections[i] # sections[j]} : n \in 0..MaxSections}

GroupSections(sections) ==
  /\ req' = [op |-> "group_sections", courses |-> sections]
  /\ out' = group_sections(sections)
  /\ UNCHANGED idx

\* the ids asked of get_by_id: the ids of the catalog and an id of no section
LookupIds == CourseIds \cup {"FAKE-ID"}

GetById(course_id) ==
  /\ req' = [op |-> "get_by_id", course_id |-> course_id]
  /\ out' = get_by_id(idx, course_id)
  /\ UNCHANGED idx

\* the documents a TrigramIndex is built from, and the queries made of it
TrigramDocs ==
  <<<<"I", "n", "t", "r", "o", " ", "t", "o", " ", "c", "s">>,
    <<"h", "i">>,
    <<"a">>,
    <<>>,
    <<"h", "i", " ", "t", "h", "e", "r", "e">>,
    <<"C", "S", " ", "1", "1", "1", " ", " ", "I", "n", "t", "r", "o">>,
    <<"t", "h", "e", " ", "e", "n", "d">>>>
DocumentLists == {SubSeq(TrigramDocs, 1, n) : n \in 0..Len(TrigramDocs)}
TrigramQueries ==
  {<<>>,
   <<" ", " ">>,
   <<"h", "i">>,
   <<" ", "H", "I", " ">>,
   <<"a">>,
   <<"c", "s">>,
   <<"c", "s", " ", "1", "1", "1">>,
   <<"C", "S", " ", " ", "1", "1", "1">>,
   <<"i", "n", "t", "r", "o">>,
   <<"I", "n", "t", "r", "o", " ", "T", "o">>,
   <<"x", "y", "z">>,
   <<"t", "h", "e", "r", "e", " ", "h", "i">>,
   <<"h", "i", " ", "t", "h", "e">>}

\* the largest min_matches asked of get_candidates
MaxMinMatches == 3

GetCandidates(texts, query, min_matches) ==
  /\ req' = [op |-> "get_candidates", index |-> add_from(TrigramIndex, texts, 1),
             query |-> query, min_matches |-> min_matches]
  /\ out' = get_candidates(add_from(TrigramIndex, texts, 1), query, min_matches)
  /\ UNCHANGED idx

\* the queries that are not empty once stripped
Queries ==
  {<<"c", "s">>,
   <<"c">>,
   <<"1">>,
   <<" ", "c", "s", "1", "1", " ">>,
   <<"C", "o", "m", "p", "u", "t", "e", "r", " ", "S", "c", "i", "e", "n", "c", "e">>,
   <<"C", "a", "l", "c">>,
   <<"c", "s", " ", " ", " ", " ", " ", " ", " ", " ", " ", " ", "1">>,
   <<"z", "z">>}

\* the scores the scorer may give a candidate, on its scale of 0 to 100
Scores == {50, 51, 90}

\* the filters asked together with a query: none, or one value of one field
QueryRequests ==
  {filters \in Requests :
     /\ Cardinality({field \in FieldSet : filters[field] # {}}) <= 1
     /\ filters["subject"] \in {{}, {<<"C", "S">>}}
     /\ filters["term"] \in {{}, {"Fall 2025"}}
     /\ filters["status"] \in {{}, {"Open"}}
     /\ filters["hub"] = {}
     /\ filters["college"] = {}}

SearchQuery(query, limit, filters, scores) ==
  /\ strip(query) # <<>>
  /\ req' = [op |-> "search_query", query |-> query, limit |-> limit, filters |-> filters,
             scores |-> scores]
  /\ out' = search_query(idx, query, limit, filters, scores)
  /\ idx' = index_after_query(idx, query, filters)

\* the queries, filters and offsets asked of search_grouped
GroupedQueries == {<<>>, <<"e", "k">>, <<" ", "C", "a", "l", "c">>}
GroupedRequests == {filters \in QueryRequests : filters["subject"] = {}}
Offsets == {0, 1, 2, 4}

\* the candidates that the scorer is asked about: none for a query that is empty
scored_candidates(self, query, filters) ==
  IF strip(query) = <<>> THEN {} ELSE query_candidates(self, query, filters)

SearchGrouped(query, sort_by, limit, offset, filters, scores) ==
  /\ req' = [op |-> "search_grouped", query |-> query, sort_by |-> sort_by, limit |-> limit,
             offset |-> offset, filters |-> filters, scores |-> scores]
  /\ out' = search_grouped(idx, query, sort_by, limit, offset, filters, scores)
  /\ idx' = index_after_query(idx, query, filters)

\* the largest number of sections in a list passed to detect_conflicts
MaxSelected == 3

\* the lists of at most MaxSelected sections, a section possibly more than once
SelectedLists == UNION {[1..n -> ConflictCatalog] : n \in 0..MaxSelected}

DetectConflicts(selected) ==
  /\ req' = [op |-> "detect_conflicts", courses |-> selected]
  /\ out' = detect_conflicts(selected)
  /\ UNCHANGED idx

\* The index is read-only once it is built, so that the result of a query does not
\* depend on the queries before it: a behaviour makes one query of the index.
\* group_sections, detect_conflicts and TrigramIndex.get_candidates read nothing of the
\* CourseIndex, so they are asked in the behaviours of the smallest index only.
NextIndex ==
  \/ /\ req = NoQuery
     /\ \E filters \in Requests : Filter(filters) /\ UNCHANGED engineVars
  \/ /\ req = NoQuery
     /\ \E query \in EmptyQueries, sort_by \in SortOrders, limit \in Limits, filters \in Requests :
          Search(query, sort_by, limit, filters) /\ UNCHANGED engineVars
  \/ /\ req = NoQuery
     /\ \E query \in Queries, limit \in Limits, filters \in QueryRequests :
          \E scores \in [query_candidates(idx, query, filters) -> Scores] :
            SearchQuery(query, limit, filters, scores) /\ UNCHANGED engineVars
  \/ /\ req = NoQuery
     /\ \E query \in GroupedQueries, sort_by \in SortOrders, limit \in Limits,
           offset \in Offsets, filters \in GroupedRequests :
          \E scores \in [scored_candidates(idx, query, filters) -> Scores] :
            SearchGrouped(query, sort_by, limit, offset, filters, scores) /\ UNCHANGED engineVars
  \/ /\ req = NoQuery
     /\ Len(idx.courses) = 1
     /\ \E sections \in SectionLists : GroupSections(sections) /\ UNCHANGED engineVars
  \/ /\ req = NoQuery
     /\ Len(idx.courses) = 1
     /\ \E selected \in SelectedLists : DetectConflicts(selected) /\ UNCHANGED engineVars
  \/ /\ req = NoQuery
     /\ \E course_id \in LookupIds : GetById(course_id) /\ UNCHANGED engineVars
  \/ /\ req = NoQuery
     /\ Len(idx.courses) = 1
     /\ \E texts \in DocumentLists, query \in TrigramQueries, min_matches \in 1..MaxMinMatches :
          GetCandidates(texts, query, min_matches) /\ UNCHANGED engineVars

SpecIndex == InitSpecIndex /\ [][NextIndex]_vars

----------------------------------------------------------------------------
(* Properties of the bitmap filter and of search *)

NoFilters == [field \in FieldSet |-> {}]

\* the request asks for values of the field f and of no other field
OnlyField(filters, f) == filters[f] # {} /\ \A g \in FieldSet \ {f} : filters[g] = {}

\* the value v occurs in the index of the field f
Indexed(f, v) == v \in DOMAIN idx.bitmap_index.indices[f]

\* filter(f=[v...]) on the index of the state
FilterOne(f, values) == filter(idx.bitmap_index, [NoFilters EXCEPT ![f] = values])

\* C4 as claimed: for any field and any two requested values a and b,
\* filter(field=[a, b]) is the union of filter(field=[a]) and filter(field=[b])
C4_UnionOfAnyTwoValues ==
  req.op = "filter" =>
    \A f \in FieldSet : \A a, b \in req.filters[f] :
      (OnlyField(req.filters, f) /\ req.filters[f] = {a, b}) =>
        out = FilterOne(f, {a}) \cup FilterOne(f, {b})

\* C4 (amended): for any field and any two requested values a and b that are both in
\* the index of the field, or both not in it, filter(field=[a, b]) is the union of
\* filter(field=[a]) and filter(field=[b]); when only a is in the index it is
\* filter(field=[a])
C4_UnionOfIndexedValues ==
  req.op = "filter" =>
    \A f \in FieldSet : \A a, b \in req.filters[f] :
      (OnlyField(req.filters, f) /\ req.filters[f] = {a, b}) =>
        /\ (Indexed(f, a) <=> Indexed(f, b)) => out = FilterOne(f, {a}) \cup FilterOne(f, {b})
        /\ (Indexed(f, a) /\ ~Indexed(f, b)) => out = FilterOne(f, {a})

\* filter was asked for two indexed values of a field that select different sections,
\* and not all of them
C4_Witness ==
  /\ req.op = "filter"
  /\ \E f \in FieldSet : \E a, b \in req.filters[f] :
       /\ OnlyField(req.filters, f)
       /\ req.filters[f] = {a, b}
       /\ Indexed(f, a) /\ Indexed(f, b)
       /\ FilterOne(f, {a}) # FilterOne(f, {b})
       /\ out = FilterOne(f, {a}) \cup FilterOne(f, {b})
       /\ out # idx.bitmap_index.all_ids

\* the values of a section that a filter on the field is about
FieldValues(course, field) ==
  CASE field = "subject" -> {course.department}
    [] field = "term" -> {course.term}
    [] field = "college" -> {course.college}
    [] field = "status" -> {course.status}
    [] field = "hub" -> {course.hub_units[h] : h \in 1..Len(course.hub_units)}

Satisfies(course, field, values) == FieldValues(course, field) \cap values # {}

C6_UnindexedFieldNotConstraining ==
  req.op = "filter" =>
    \A f \in FieldSet :
      (req.filters[f] # {} /\ \A v \in req.filters[f] : ~Indexed(f, v)) =>
        /\ OnlyField(req.filters, f) => out = idx.bitmap_index.all_ids
        /\ out = filter(idx.bitmap_index, [req.filters EXCEPT ![f] = {}])

\* filter was asked for an unindexed value of one field together with a constraining
\* value of another field
C6_Witness ==
  /\ req.op = "filter"
  /\ \E f, g \in FieldSet :
       /\ f # g
       /\ req.filters[f] # {}
       /\ \A v \in req.filters[f] : ~Indexed(f, v)
       /\ \E v \in req.filters[g] : Indexed(g, v)
       /\ out # {}
       /\ out # idx.bitmap_index.all_ids
       /\ out = FilterOne(g, req.filters[g])

\* ---------------------------------------------------------------------------------
\* Properties of the grouping of sections
\* ---------------------------------------------------------------------------------

\* the positions of the groups that hold section s, as primary or as a related section
GroupsHolding(groups, s) ==
  {g \in 1..Len(groups) :
     \/ groups[g].id = s.id
     \/ \E k \in 1..Len(groups[g].related_sections) : groups[g].related_sections[k].id = s.id}

\* the positions of the groups of the (code, term) partition of section s
GroupsOfPartition(groups, s) ==
  {g \in 1..Len(groups) : groups[g].code = s.code /\ groups[g].term = s.term}

\* the number of times section s is held by group g
TimesHeld(group, s) ==
  (IF group.id = s.id THEN 1 ELSE 0)
    + Cardinality({k \in 1..Len(group.related_sections) : group.related_sections[k].id = s.id})

\* section s is a related section of every group of its partition, and has the section
\* prefix of none of their primaries
SharedByPartition(groups, s) ==
  /\ GroupsHolding(groups, s) = GroupsOfPartition(groups, s)
  /\ \A g \in GroupsOfPartition(groups, s) :
       /\ groups[g].id # s.id
       /\ \/ _get_section_prefix(s.section) = <<>>
          \/ _get_section_prefix(groups[g].section) # _get_section_prefix(s.section)

\* C12 as claimed: every section given to group_sections is in the output, in groups of
\* its own (code, term) partition only: in exactly one group, once, or, when it is a
\* secondary section matching no primary, in every group of its partition
C12_EverySectionInAGroup ==
  req.op = "group_sections" =>
    \A i \in 1..Len(req.courses) :
      /\ GroupsHolding(out, req.courses[i]) # {}
      /\ GroupsHolding(out, req.courses[i]) \subseteq GroupsOfPartition(out, req.courses[i])
      /\ \A g \in GroupsHolding(out, req.courses[i]) : TimesHeld(out[g], req.courses[i]) = 1
      /\ \/ Cardinality(GroupsHolding(out, req.courses[i])) = 1
         \/ SharedByPartition(out, req.courses[i])

\* what does hold of group_sections: the claim of C12 for the sections whose type is
\* one of the listed primary or secondary types, and no group for any other section
C12_ListedTypesInAGroup ==
  req.op = "group_sections" =>
    \A i \in 1..Len(req.courses) :
      IF req.courses[i].section_type \in PRIMARY_SECTION_TYPES \cup SECONDARY_SECTION_TYPES
        THEN /\ GroupsHolding(out, req.courses[i]) # {}
             /\ GroupsHolding(out, req.courses[i]) \subseteq GroupsOfPartition(out, req.courses[i])
             /\ \A g \in GroupsHolding(out, req.courses[i]) : TimesHeld(out[g], req.courses[i]) = 1
             /\ \/ Cardinality(GroupsHolding(out, req.courses[i])) = 1
                \/ SharedByPartition(out, req.courses[i])
        ELSE GroupsHolding(out, req.courses[i]) = {}

\* group_sections was given a section of an unlisted type next to a lecture of the same
\* course and term
C12_DroppedSection ==
  /\ req.op = "group_sections"
  /\ \E i, j \in 1..Len(req.courses) :
       /\ req.courses[i].section_type \notin PRIMARY_SECTION_TYPES \cup SECONDARY_SECTION_TYPES
       /\ req.courses[j].section_type = "Lecture"
       /\ req.courses[j].code = req.courses[i].code
       /\ req.courses[j].term = req.courses[i].term
       /\ GroupsHolding(out, req.courses[i]) = {}
       /\ GroupsHolding(out, req.courses[j]) # {}

\* the sections of list cs that have the course code and the term of section s
SamePartition(cs, s) == SelectSeq(cs, LAMBDA c : c.code = s.code /\ c.term = s.term)

\* the primaries of the partition of section s in list cs, in the order of the list: its
\* sections of a primary type or, when it has none, its first section of a secondary type
PrimariesOf(cs, s) ==
  IF \E i \in 1..Len(cs) : /\ cs[i].code = s.code /\ cs[i].term = s.term
                           /\ cs[i].section_type \in PRIMARY_SECTION_TYPES
  THEN SelectSeq(SamePartition(cs, s), LAMBDA c : c.section_type \in PRIMARY_SECTION_TYPES)
  ELSE <<SelectSeq(SamePartition(cs, s), LAMBDA c : c.section_type \in SECONDARY_SECTION_TYPES)[1]>>

\* the positions of the primaries that have the letter prefix of section s
SamePrefix(primaries, s) ==
  {i \in 1..Len(primaries) :
     /\ _get_section_prefix(s.section) # <<>>
     /\ _get_section_prefix(primaries[i].section) = _get_section_prefix(s.section)}

\* the positions of the groups that hold section s as a related section
GroupsRelating(groups, s) ==
  {g \in 1..Len(groups) :
     \E k \in 1..Len(groups[g].related_sections) : groups[g].related_sections[k].id = s.id}

\* the positions of the groups whose primary is one of the given primaries
GroupsOfPrimaries(groups, primaries) ==
  {g \in 1..Len(groups) : \E i \in 1..Len(primaries) : groups[g].id = primaries[i].id}

\* the ids of the related sections of the group of the primary with the given id
RelatedIds(groups, id) ==
  LET g == CHOOSE g \in 1..Len(groups) : groups[g].id = id
  IN  [k \in 1..Len(groups[g].related_sections) |-> groups[g].related_sections[k].id]

\* the attachment of the secondary section s of list cs in the groups made of cs
AttachedAsClaimed(groups, cs, s) ==
  IF SamePrefix(PrimariesOf(cs, s), s) # {}
  THEN GroupsRelating(groups, s) =
         GroupsOfPrimaries(groups,
           <<PrimariesOf(cs, s)[CHOOSE i \in SamePrefix(PrimariesOf(cs, s), s) :
                                  \A j \in SamePrefix(PrimariesOf(cs, s), s) : i <= j]>>)
  ELSE GroupsRelating(groups, s) = GroupsOfPrimaries(groups, PrimariesOf(cs, s))

\* C13: in the groups made by group_sections, a secondary section whose letter prefix is
\* that of some primary of its partition is a related section of the first such primary
\* only, and a secondary section whose prefix (or lack of one) matches no primary is a
\* related section of every primary of its partition; lectures A1 and B1 with discussions
\* A2 and D1 give two groups, A1 with A2 and D1, and B1 with D1
C13_SecondaryAttachedByPrefix ==
  req.op = "group_sections" =>
    /\ \A i \in 1..Len(req.courses) :
         (/\ req.courses[i].section_type \in SECONDARY_SECTION_TYPES
          /\ \A p \in 1..Len(PrimariesOf(req.courses, req.courses[i])) :
               PrimariesOf(req.courses, req.courses[i])[p].id # req.courses[i].id)
           => /\ AttachedAsClaimed(out, req.courses, req.courses[i])
              /\ Cardinality(GroupsOfPrimaries(out, PrimariesOf(req.courses, req.courses[i])))
                   = Len(PrimariesOf(req.courses, req.courses[i]))
    /\ {req.courses[i] : i \in 1..Len(req.courses)} = {CourseK, CourseD, CourseL, CourseE}
         => /\ Len(out) = 2
            /\ RelatedIds(out, "K") = <<"L", "E">>
            /\ RelatedIds(out, "D") = <<"E">>

\* group_sections was given two lectures of the same letter prefix, the second of them in
\* front, with a discussion of that prefix and a discussion of another prefix: the first
\* discussion is under the lecture in front only, the other discussion under both
C13_Witness ==
  /\ req.op = "group_sections"
  /\ req.courses = <<CourseO, CourseK, CourseL, CourseE>>
  /\ Len(out) = 2
  /\ RelatedIds(out, "O") = <<"L", "E">>
  /\ RelatedIds(out, "K") = <<"E">>

\* group_sections was given lectures A1 and B1 with discussions A2 and D1
C13_WitnessExample ==
  /\ req.op = "group_sections"
  /\ req.courses = <<CourseK, CourseD, CourseL, CourseE>>
  /\ Len(out) = 2

\* ---------------------------------------------------------------------------------
\* Properties of the lookup by id
\* ---------------------------------------------------------------------------------

\* C18: get_by_id of the id of a section of the list the index was built from returns
\* that section, and get_by_id of an id of no section returns None
C18_GetByIdReturnsSection ==
  req.op = "get_by_id" =>
    /\ \A i \in 1..Len(idx.courses) : idx.courses[i].id = req.course_id => out = idx.courses[i]
    /\ (\A i \in 1..Len(idx.courses) : idx.courses[i].id # req.course_id) => out = None

\* get_by_id found a section that is not the first of an index of several sections
C18_Witness ==
  /\ req.op = "get_by_id"
  /\ Len(idx.courses) > 1
  /\ \E i \in 2..Len(idx.courses) : idx.courses[i].id = req.course_id /\ out = idx.courses[i]

\* get_by_id was asked for an id of no section of the index and returned None
C18_WitnessMiss ==
  /\ req.op = "get_by_id"
  /\ \A i \in 1..Len(idx.courses) : idx.courses[i].id # req.course_id
  /\ out = None

\* ---------------------------------------------------------------------------------
\* Properties of the trigram index
\* ---------------------------------------------------------------------------------

\* the shingles of a normalized string: its substrings of three characters, or the
\* string itself when it is shorter and not empty
Shingles(s) ==
  IF s = <<>> THEN {}
  ELSE IF Len(s) < 3 THEN {s}
  ELSE {SubSeq(s, i, i + 2) : i \in 1..(Len(s) - 2)}

\* the number of different shingles of the normalized query that document d has
SharedShingles(index, query, d) ==
  Cardinality(Shingles(_normalize(query)) \cap Shingles(index.id_to_text[d]))

\* C19: get_candidates returns exactly the indexed ids that share at least min_matches
\* different shingles with the normalized query, and every indexed id when the
\* normalized query has no shingle
C19_CandidatesShareShingles ==
  req.op = "get_candidates" =>
    IF Shingles(_normalize(req.query)) = {}
    THEN out = DOMAIN req.index.id_to_text
    ELSE out = {d \in DOMAIN req.index.id_to_text :
                  SharedShingles(req.index, req.query, d) >= req.min_matches}

\* get_candidates was asked for more than one match, returned a document, and left out
\* a document that shares a shingle with the query
C19_Witness ==
  /\ req.op = "get_candidates"
  /\ req.min_matches > 1
  /\ out # {}
  /\ \E d \in DOMAIN req.index.id_to_text \ out : SharedShingles(req.index, req.query, d) >= 1

\* get_candidates was asked a query of fewer than three characters once normalized and
\* returned the document equal to it, not the longer document that starts with it
C19_WitnessShort ==
  /\ req.op = "get_candidates"
  /\ Len(_normalize(req.query)) \in 1..2
  /\ out # {}
  /\ \E d \in DOMAIN req.index.id_to_text \ out :
       /\ Len(req.index.id_to_text[d]) > Len(_normalize(req.query))
       /\ SubSeq(req.index.id_to_text[d], 1, Len(_normalize(req.query))) = _normalize(req.query)

\* get_candidates was asked a query of spaces only and returned every document
C19_WitnessEmpty ==
  /\ req.op = "get_candidates"
  /\ req.query # <<>>
  /\ _normalize(req.query) = <<>>
  /\ Cardinality(out) > 1
  /\ out = DOMAIN req.index.id_to_text

\* ---------------------------------------------------------------------------------
\* Properties of search with a query
\* ---------------------------------------------------------------------------------

\* the ordinal in the index of a section that search returned
OrdinalOf(course) == (CHOOSE i \in 1..Len(idx.courses) : idx.courses[i] = course) - 1

\* the ordinals of the sections that pass the filters, are candidates of the query and
\* score above 50
GoodMatches ==
  {i \in query_candidates(idx, req.query, req.filters) : req.scores[i] > 50}

\* C20: for a query that is not empty, search returns at most limit sections, without
\* repetition, each a filter-and-candidate match scoring above 50, the higher scores
\* first, and they are the limit best: no such match left out scores higher than a
\* returned one, and none is left out while there is room under the limit
C20_TopLimitByScore ==
  req.op = "search_query" =>
    /\ Len(out) <= req.limit
    /\ \A k \in 1..Len(out) : \E i \in 1..Len(idx.courses) : idx.courses[i] = out[k]
    /\ \A k \in 1..Len(out) : OrdinalOf(out[k]) \in GoodMatches
    /\ \A j, k \in 1..Len(out) : j < k =>
         /\ out[j] # out[k]
         /\ req.scores[OrdinalOf(out[j])] >= req.scores[OrdinalOf(out[k])]
    /\ \A i \in GoodMatches \ {OrdinalOf(out[k]) : k \in 1..Len(out)} :
         \A k \in 1..Len(out) : req.scores[i] <= req.scores[OrdinalOf(out[k])]
    /\ Len(out) = Min(req.limit, Cardinality(GoodMatches))

\* search with a query had more than twice the limit of candidates, the best of them
\* not the first in the index, and returned the best one and left out a match above 50
C20_Witness ==
  /\ req.op = "search_query"
  /\ Cardinality(query_candidates(idx, req.query, req.filters)) > 2 * req.limit
  /\ Len(out) = req.limit
  /\ Cardinality(GoodMatches) > Len(out)
  /\ \E i \in GoodMatches : req.scores[i] < req.scores[OrdinalOf(out[1])]
  /\ \E i \in query_candidates(idx, req.query, req.filters) :
       i < OrdinalOf(out[1]) /\ req.scores[i] <= 50

\* ---------------------------------------------------------------------------------
\* Properties of the grouped search
\* ---------------------------------------------------------------------------------

\* the answer of search_grouped to the request made, asked with another limit and offset
GroupedAnswer(limit, offset) ==
  search_grouped(idx, req.query, req.sort_by, limit, offset, req.filters, req.scores)

\* the sorted list of all the groups of the request made: the page of offset 0 under a
\* limit that no list of groups reaches
AllGroups == GroupedAnswer(Len(idx.courses) + 1, 0).page

\* the pages of the request made at offsets 0, limit, 2*limit, ..., one after the other,
\* for a list of n groups
PagesInARow(n) ==
  Flatten([k \in 1..(n \div req.limit + 1) |-> GroupedAnswer(req.limit, (k - 1) * req.limit).page])

\* the answer made is the page and the total of the list groups of all the groups
PageAndTotalOf(groups) ==
  /\ out.total = Len(groups)
  /\ Len(out.page) = Max(0, Min(req.limit, Len(groups) - req.offset))
  /\ \A k \in 1..Len(out.page) : out.page[k] = groups[req.offset + k]
  /\ PagesInARow(Len(groups)) = groups

\* C14: the total of search_grouped is the number of groups made of all the sections that
\* match the query and the filters, whatever the limit and the offset; the page is the
\* groups of positions offset to offset+limit-1 of the sorted list of groups; and the
\* pages at offsets 0, limit, 2*limit, ... hold every group once, in order
C14_TotalAndPageOfGroups ==
  req.op = "search_grouped" =>
    /\ PageAndTotalOf(AllGroups)
    /\ out.total = Len(group_sections(
                         matched_courses(idx, req.query, req.sort_by, req.filters, req.scores)))
    /\ \A limit \in Limits \ {req.limit} : GroupedAnswer(limit, req.offset).total = out.total
    /\ \A offset \in Offsets \ {req.offset} : GroupedAnswer(req.limit, offset).total = out.total

\* search_grouped returned a page that is neither the first nor the last of the list of
\* groups, and fewer groups in all than sections matched
C14_Witness ==
  /\ req.op = "search_grouped"
  /\ req.offset > 0
  /\ out.page # <<>>
  /\ req.offset + Len(out.page) < out.total
  /\ out.total < Len(matched_courses(idx, req.query, req.sort_by, req.filters, req.scores))

\* ---------------------------------------------------------------------------------
\* Properties of detect_conflicts
\* ---------------------------------------------------------------------------------

\* the meetings of the sections that detect_conflicts is called with, and the parsed
\* day codes and times of each, computed once
ConflictMeetings == UNION {{c.schedule[k] : k \in 1..Len(c.schedule)} : c \in ConflictCatalog}
DayCodes == [m \in ConflictMeetings |-> parse_days_to_set(m.days)]
StartOf == [m \in ConflictMeetings |-> parse_time_to_minutes(m.start_time)]
EndOf == [m \in ConflictMeetings |-> parse_time_to_minutes(m.end_time)]

\* the day-code sets of the two meetings intersect
DaysIntersect(m1, m2) == DayCodes[m1] \cap DayCodes[m2] # {}

\* a time of one of the two meetings is a string that parse_time_to_minutes raises on
SomeTimeRaises(m1, m2) == Raised \in {StartOf[m1], EndOf[m1], StartOf[m2], EndOf[m2]}

\* the two meetings conflict: common day codes, start1 < end2 and start2 < end1
MeetingsConflict(m1, m2) ==
  /\ DaysIntersect(m1, m2)
  /\ ~SomeTimeRaises(m1, m2)
  /\ StartOf[m1] < EndOf[m2]
  /\ StartOf[m2] < EndOf[m1]

\* the pairs (a, b) of a meeting of c1 and a meeting of c2 in the order of the scan, and
\* those scanned before the pair (a, b)
MeetingPairs(c1, c2) == (1..Len(c1.schedule)) \X (1..Len(c2.schedule))
Before(p, q) == p[1] < q[1] \/ (p[1] = q[1] /\ p[2] < q[2])

\* the first conflicting pair of meetings of c1 and c2 is the pair p
FirstConflict(c1, c2, p) ==
  /\ MeetingsConflict(c1.schedule[p[1]], c2.schedule[p[2]])
  /\ \A q \in MeetingPairs(c1, c2) :
       Before(q, p) => ~MeetingsConflict(c1.schedule[q[1]], c2.schedule[q[2]])

\* the scan of c1 and c2 raises: a pair of meetings with common days and a time that
\* raises comes before any conflicting pair
ScanRaises(c1, c2) ==
  \E p \in MeetingPairs(c1, c2) :
    /\ DaysIntersect(c1.schedule[p[1]], c2.schedule[p[2]])
    /\ SomeTimeRaises(c1.schedule[p[1]], c2.schedule[p[2]])
    /\ \A q \in MeetingPairs(c1, c2) :
         Before(q, p) => ~MeetingsConflict(c1.schedule[q[1]], c2.schedule[q[2]])

\* the pairs i < j of list positions whose sections have a conflicting pair of meetings
ConflictingPositions(cs) ==
  {p \in (1..Len(cs)) \X (1..Len(cs)) :
     /\ p[1] < p[2]
     /\ \E q \in MeetingPairs(cs[p[1]], cs[p[2]]) : FirstConflict(cs[p[1]], cs[p[2]], q)}

\* the place in the report of the conflict of the positions p: the pairs are reported
\* in the order of the scan
PlaceOf(cs, p) == Cardinality({q \in ConflictingPositions(cs) : Before(q, p)}) + 1

\* the conflict reported is the one of the first conflicting pair of meetings of c1, c2
ReportsFirstConflict(conflict, c1, c2) ==
  /\ conflict.course1_id = c1.id
  /\ conflict.course2_id = c2.id
  /\ \E p \in MeetingPairs(c1, c2) :
       /\ FirstConflict(c1, c2, p)
       /\ conflict.overlap_time = c1.schedule[p[1]].start_time \o <<"-">> \o c1.schedule[p[1]].end_time
       /\ conflict.overlap_day =
            join_comma(sorted_strs(DayCodes[c1.schedule[p[1]]] \cap DayCodes[c2.schedule[p[2]]]))

\* C15: detect_conflicts reports one Conflict for every pair of list positions i < j
\* whose sections have a pair of meetings with common day codes and start1 < end2 and
\* start2 < end1, and none for the other pairs; the Conflict is that of the first such
\* pair of meetings, in the order of the schedule of the first section and then of the
\* second.  (It raises exactly when the scan of some pair of positions meets, before any
\* conflicting pair of meetings, a time string that parse_time_to_minutes raises on.)
C15_FirstConflictOfEachPair ==
  req.op = "detect_conflicts" =>
    /\ out.raised <=> \E i, j \in 1..Len(req.courses) :
                        i < j /\ ScanRaises(req.courses[i], req.courses[j])
    /\ ~out.raised =>
         /\ Len(out.conflicts) = Cardinality(ConflictingPositions(req.courses))
         /\ \A p \in ConflictingPositions(req.courses) :
              ReportsFirstConflict(out.conflicts[PlaceOf(req.courses, p)],
                                   req.courses[p[1]], req.courses[p[2]])

\* detect_conflicts reported a conflict of the second meeting of a section, reported only
\* one conflict for two sections with two conflicting pairs of meetings, and reported
\* nothing for a pair of sections
C15_Witness ==
  /\ req.op = "detect_conflicts"
  /\ ~out.raised
  /\ Len(req.courses) = 3
  /\ Len(out.conflicts) = 2
  /\ \E p \in ConflictingPositions(req.courses) :
       \E q \in MeetingPairs(req.courses[p[1]], req.courses[p[2]]) :
         q[1] > 1 /\ FirstConflict(req.courses[p[1]], req.courses[p[2]], q)
  /\ \E p \in ConflictingPositions(req.courses) :
       Cardinality({q \in MeetingPairs(req.courses[p[1]], req.courses[p[2]]) :
                      MeetingsConflict(req.courses[p[1]].schedule[q[1]],
                                       req.courses[p[2]].schedule[q[2]])}) > 1

\* ---------------------------------------------------------------------------------
\* Properties of the orders of search
\* ---------------------------------------------------------------------------------

\* a < b for two strings, on the code points
StrLess(a, b) == a # b /\ str_le(a, b)

\* the section at the list position i comes before the one at j in the order of sort_by
KeyLess(i, j, sort_by) ==
  CASE sort_by = "code" -> StrLess(idx.courses[i].code, idx.courses[j].code)
    [] sort_by = "title" -> StrLess(lower(idx.courses[i].title), lower(idx.courses[j].title))
    [] sort_by = "professor" ->
         StrLess(lower(idx.courses[i].professor), lower(idx.courses[j].professor))
    [] sort_by = "credits" -> idx.courses[i].credits > idx.courses[j].credits
    [] OTHER -> FALSE

\* the list positions that come before the position i in the order of sort_by: sections
\* with equal keys stay in the order of the list
ComesBefore(i, sort_by) ==
  {j \in 1..Len(idx.courses) :
     KeyLess(j, i, sort_by) \/ (~KeyLess(i, j, sort_by) /\ j < i)}

\* C21: search with a query that is empty once stripped and no filters returns
\* min(limit, number of sections) sections, the k-th of them being the section that has
\* k - 1 sections before it in the order of sort_by (code ascending, title and professor
\* ascending on the lowercased strings, credits descending, the order of the list for
\* "relevance"), so that it returns every section when limit is at least their number
C21_FirstLimitOfSortOrder ==
  (req.op = "search" /\ req.filters = NoFilters) =>
    /\ Len(out) = Min(req.limit, Len(idx.courses))
    /\ \A k \in 1..Len(out) :
         \E i \in 1..Len(idx.courses) :
           /\ out[k] = idx.courses[i]
           /\ Cardinality(ComesBefore(i, req.sort_by)) = k - 1

\* search returned, of an index of several sections, the first two by professor, which
\* are not in the order of the list
C21_Witness ==
  /\ req.op = "search"
  /\ req.filters = NoFilters
  /\ req.sort_by = "professor"
  /\ req.limit = 2
  /\ Len(idx.courses) > 2
  /\ Len(out) = 2
  /\ \E i, j \in 1..Len(idx.courses) :
       out[1] = idx.courses[i] /\ out[2] = idx.courses[j] /\ j < i

\* search returned every section by professor, one written in lower case before one
\* written with a capital
C21_WitnessCase ==
  /\ req.op = "search"
  /\ req.filters = NoFilters
  /\ req.sort_by = "professor"
  /\ Len(out) = Len(idx.courses)
  /\ \E k \in 1..(Len(out) - 1) : StrLess(out[k + 1].professor, out[k].professor)

\* search returned every section of an index of several sections, by credits descending
C21_WitnessAll ==
  /\ req.op = "search"
  /\ req.filters = NoFilters
  /\ req.sort_by = "credits"
  /\ req.limit > Len(idx.courses)
  /\ Len(out) = Len(idx.courses)
  /\ Len(out) > 2
  /\ \E k \in 1..(Len(out) - 1) : out[k].credits > out[k + 1].credits

\* ---------------------------------------------------------------------------------
\* Properties of the order of the events of get_events
\* ---------------------------------------------------------------------------------

\* the place of a weekday in the week, Monday being 1
DayIndex(day) == CHOOSE d \in 1..Len(DAY_ORDER) : DAY_ORDER[d] = day

\* the weekday and the times of the events of a list
DayTimes(events) ==
  [k \in 1..Len(events) |-> <<events[k].day, events[k].start_minutes, events[k].end_minutes>>]

\* the list with its elements in the opposite order
Reversed(s) == [k \in 1..Len(s) |-> s[Len(s) + 1 - k]]

\* C22: the events returned by get_events are in the order Monday, ..., Sunday of their
\* weekdays, those of one weekday by (start ascending, end ascending); a weekday has
\* events exactly when a section held has an occurrence on it; and the weekdays and times
\* of the list are the same when the sections are held in the opposite order
C22_EventsInWeekdayOrder ==
  ret.op = "get_events" =>
    /\ \A k \in 1..(Len(ret.val) - 1) :
         \/ DayIndex(ret.val[k].day) < DayIndex(ret.val[k + 1].day)
         \/ /\ ret.val[k].day = ret.val[k + 1].day
            /\ \/ ret.val[k].start_minutes < ret.val[k + 1].start_minutes
               \/ /\ ret.val[k].start_minutes = ret.val[k + 1].start_minutes
                  /\ ret.val[k].end_minutes <= ret.val[k + 1].end_minutes
    /\ \A d \in 1..Len(DAY_ORDER) :
         DayEvents(ret.val, DAY_ORDER[d]) # <<>>
           <=> \E i \in 1..Len(courses) : DAY_ORDER[d] \in DaySet(courses[i])
    /\ DayTimes(ret.val) = DayTimes(get_events(Reversed(courses), 0).result)

\* get_events returned, first, an event of a section added after a section whose events
\* are all on later weekdays, and no event for some weekday
C22_Witness ==
  /\ ret.op = "get_events"
  /\ Len(courses) >= 2
  /\ DaySet(courses[1]) # {}
  /\ \E j \in 2..Len(courses) :
       /\ ret.val[1].course_id = courses[j].id
       /\ \A d \in DaySet(courses[1]) : DayIndex(ret.val[1].day) < DayIndex(d)
  /\ \E d \in 1..Len(DAY_ORDER) : DayEvents(ret.val, DAY_ORDER[d]) = <<>>
  /\ \E k \in 1..(Len(ret.val) - 1) :
       /\ ret.val[k].day = ret.val[k + 1].day
       /\ ret.val[k].start_minutes < ret.val[k + 1].start_minutes

\* ---------------------------------------------------------------------------------
\* Properties of the partitions without a primary section
\* ---------------------------------------------------------------------------------

\* the sections of a secondary type of the partition of section s, in the order of cs
SecondariesOf(cs, s) ==
  SelectSeq(SamePartition(cs, s), LAMBDA c : c.section_type \in SECONDARY_SECTION_TYPES)

\* the partition of section s in cs has no section of a primary type
NoPrimaryType(cs, s) ==
  \A i \in 1..Len(cs) :
    (cs[i].code = s.code /\ cs[i].term = s.term) => cs[i].section_type \notin PRIMARY_SECTION_TYPES

\* C23: in the groups made by group_sections, a (code, term) partition that has sections
\* of a secondary type and none of a primary type has exactly one group; its primary is
\* the first of the secondary sections in the order of the list, carried with its own
\* fields, and its related sections are the other secondary sections of the partition,
\* each once
C23_FirstSecondaryPromoted ==
  req.op = "group_sections" =>
    \A i \in 1..Len(req.courses) :
      (/\ req.courses[i].section_type \in SECONDARY_SECTION_TYPES
       /\ NoPrimaryType(req.courses, req.courses[i]))
        => LET secs == SecondariesOf(req.courses, req.courses[i])
               gs == GroupsOfPartition(out, req.courses[i])
           IN  /\ Cardinality(gs) = 1
               /\ \A g \in gs :
                    /\ out[g] = from_course(secs[1], out[g].related_sections)
                    /\ Len(out[g].related_sections) = Len(secs) - 1
                    /\ \A k \in 2..Len(secs) : TimesHeld(out[g], secs[k]) = 1
                    /\ TimesHeld(out[g], secs[1]) = 1

\* group_sections was given three discussions of one course and no lecture of it, the
\* first of them without a letter prefix and the others with different prefixes: the
\* first is the primary of the only group and the other two are its related sections
C23_Witness ==
  /\ req.op = "group_sections"
  /\ Len(req.courses) >= 3
  /\ NoPrimaryType(req.courses, req.courses[1])
  /\ Len(SecondariesOf(req.courses, req.courses[1])) = 3
  /\ req.courses[1].section_type \in SECONDARY_SECTION_TYPES
  /\ _get_section_prefix(req.courses[1].section) = <<>>
  /\ Len(out) >= 1
  /\ out[1].id = req.courses[1].id
  /\ Len(out[1].related_sections) = 2
  /\ \E a, b \in 1..2 :
       _get_section_prefix(out[1].related_sections[a].section)
         # _get_section_prefix(out[1].related_sections[b].section)

\* ---------------------------------------------------------------------------------
\* Properties of the lookup of short queries
\* ---------------------------------------------------------------------------------

\* the query of the request, stripped and in upper case
UpperQuery == upper(strip(req.query))

\* the posting sets of the keys of the prefix index that start with the prefix
PostingsFrom(prefix) ==
  UNION {idx.prefix_index[key] :
           key \in {k \in DOMAIN idx.prefix_index :
                      Len(k) >= Len(prefix) /\ \A n \in 1..Len(prefix) : k[n] = prefix[n]}}

\* the prefix index that is built from the sections of each snapshot, computed once
BuiltPrefixIndex == [snapshot \in Snapshots |-> _build_prefix_index(snapshot)]

\* C24: for a search query of fewer than 3 characters once stripped, the candidates that
\* go to the ranking are, of the sections that pass the filters, the posting set of the
\* uppercased query when it is a key of the prefix index, and otherwise the union of the
\* posting sets of the keys that start with it; and after the search the prefix index is
\* the one that was built from the sections
C24_ShortQueryByPrefixIndex ==
  (req.op = "search_query" /\ Len(strip(req.query)) < 3) =>
    /\ DOMAIN req.scores =
         filter(idx.bitmap_index, req.filters)
           \cap (IF UpperQuery \in DOMAIN idx.prefix_index
                 THEN idx.prefix_index[UpperQuery]
                 ELSE PostingsFrom(UpperQuery))
    /\ idx.prefix_index = BuiltPrefixIndex[idx.courses]

\* a search of two characters found its key in the prefix index, with a posting set of
\* some sections and not of all, and ranked these
C24_Witness ==
  /\ req.op = "search_query"
  /\ Len(strip(req.query)) = 2
  /\ req.filters = NoFilters
  /\ UpperQuery # strip(req.query)
  /\ UpperQuery \in DOMAIN idx.prefix_index
  /\ DOMAIN req.scores = idx.prefix_index[UpperQuery]
  /\ Cardinality(DOMAIN req.scores) > 1
  /\ Cardinality(DOMAIN req.scores) < Len(idx.courses)
  /\ out # <<>>

\* a search of one character, which is no key, ranked the sections of the several keys
\* that start with it
C24_WitnessPartial ==
  /\ req.op = "search_query"
  /\ Len(strip(req.query)) = 1
  /\ req.filters = NoFilters
  /\ UpperQuery \notin DOMAIN idx.prefix_index
  /\ Cardinality({k \in DOMAIN idx.prefix_index : startswith(k, UpperQuery)}) > 1
  /\ DOMAIN req.scores = PostingsFrom(UpperQuery)
  /\ DOMAIN req.scores # {}

\* ---------------------------------------------------------------------------------
\* Properties relating add_course and get_all_conflicts
\* ---------------------------------------------------------------------------------

\* the conflicts that the calls add_course(cs[1]), ..., add_course(cs[n]) return, one
\* list after the other, when they are made of an empty engine
ReturnedByAdds(cs) ==
  Flatten([k \in 1..Len(cs) |-> add_course(SubSeq(cs, 1, k - 1), cs[k]).conflicts])

\* a list of conflicts as a set of unordered pairs of events with the day and the bounds
\* of the overlap
ConflictSet(conflicts) ==
  {[events |-> {conflicts[k].event1, conflicts[k].event2}, day |-> conflicts[k].day,
    overlap_start |-> conflicts[k].overlap_start, overlap_end |-> conflicts[k].overlap_end]
   : k \in 1..Len(conflicts)}

\* C25: the sections held have different ids and adding them in their order to an empty
\* engine gives the mapping held; the conflicts returned by these add_course calls,
\* taken together, are the conflicts that get_all_conflicts returns, as sets of
\* unordered pairs of events with their day and the bounds of the overlap
C25_AddedConflictsAreAllConflicts ==
  ret.op = "get_all_conflicts" =>
    /\ \A i, j \in 1..Len(courses) : i # j => courses[i].id # courses[j].id
    /\ add_all(<<>>, courses) = courses
    /\ ConflictSet(ReturnedByAdds(courses)) = ConflictSet(ret.val)

\* get_all_conflicts returned the conflicts of three sections, of which the second was
\* returned a conflict with the first when added, and the third a conflict with the
\* second and none with the first
C25_Witness ==
  /\ ret.op = "get_all_conflicts"
  /\ Len(courses) = 3
  /\ add_course(<<courses[1]>>, courses[2]).conflicts # <<>>
  /\ add_course(<<courses[1], courses[2]>>, courses[3]).conflicts # <<>>
  /\ \A k \in 1..Len(add_course(<<courses[1], courses[2]>>, courses[3]).conflicts) :
       add_course(<<courses[1], courses[2]>>, courses[3]).conflicts[k].event2.course_id
         = courses[2].id
  /\ \E k \in 1..Len(ret.val) :
       ret.val[k].event1.course_id = courses[2].id /\ ret.val[k].event2.course_id = courses[3].id
  /\ ret.val # ReturnedByAdds(courses)

\* ---------------------------------------------------------------------------------
\* Properties relating detect_conflicts and the conflicts of the schedule engine
\* ---------------------------------------------------------------------------------

\* the sections of the list have different ids and each of them can be added to the engine
Addable(cs) ==
  /\ \A i, j \in 1..Len(cs) : i # j => cs[i].id # cs[j].id
  /\ \A i \in 1..Len(cs) : ~catalog_raises[cs[i]]

\* detect_conflicts reported a conflict of the sections c1 and c2
IndexReports(conflicts, c1, c2) ==
  \E k \in 1..Len(conflicts) :
    {conflicts[k].course1_id, conflicts[k].course2_id} = {c1.id, c2.id}

\* get_all_conflicts of the engine that holds the sections of the list reports a conflict
\* of the sections c1 and c2
EngineReports(cs, c1, c2) ==
  \E k \in 1..Len(get_all_conflicts(add_all(<<>>, cs))) :
    {get_all_conflicts(add_all(<<>>, cs))[k].event1.course_id,
     get_all_conflicts(add_all(<<>>, cs))[k].event2.course_id} = {c1.id, c2.id}

\* C26 as claimed: for a list of sections with different ids, detect_conflicts reports a
\* conflict of two of the sections exactly when get_all_conflicts, after the sections
\* were added to the engine, reports at least one conflict of the two
C26_IndexAndEngineAgree ==
  (req.op = "detect_conflicts" /\ Addable(req.courses) /\ ~out.raised) =>
    \A i, j \in 1..Len(req.courses) :
      i < j => (IndexReports(out.conflicts, req.courses[i], req.courses[j])
                  <=> EngineReports(req.courses, req.courses[i], req.courses[j]))

\* the meeting is one that the engine expands to events, and its day codes for
\* detect_conflicts name the weekdays of these events: no letter T or S stands alone
PlainMeeting(m) ==
  /\ ~meeting_is_tba(m)
  /\ ~(StartOf[m] = 0 /\ EndOf[m] = 0)
  /\ DayCodes[m] \cap {<<"T">>, <<"S">>} = {}

\* the part of C26 that holds: the two checks agree on the lists whose sections have
\* meetings of this kind only
C26_AgreeOnPlainMeetings ==
  (/\ req.op = "detect_conflicts"
   /\ Addable(req.courses)
   /\ ~out.raised
   /\ \A i \in 1..Len(req.courses) : \A k \in 1..Len(req.courses[i].schedule) :
        PlainMeeting(req.courses[i].schedule[k])) =>
    \A i, j \in 1..Len(req.courses) :
      i < j => (IndexReports(out.conflicts, req.courses[i], req.courses[j])
                  <=> EngineReports(req.courses, req.courses[i], req.courses[j]))

\* detect_conflicts and the engine agreed on a list of three sections with a
\* conflicting pair and a pair without conflict
C26_WitnessAgree ==
  /\ req.op = "detect_conflicts"
  /\ Addable(req.courses)
  /\ ~out.raised
  /\ Len(req.courses) = 3
  /\ \A i \in 1..3 : \A k \in 1..Len(req.courses[i].schedule) :
       PlainMeeting(req.courses[i].schedule[k])
  /\ IndexReports(out.conflicts, req.courses[1], req.courses[2])
  /\ EngineReports(req.courses, req.courses[1], req.courses[2])
  /\ ~IndexReports(out.conflicts, req.courses[1], req.courses[3])
  /\ ~EngineReports(req.courses, req.courses[1], req.courses[3])

\* detect_conflicts reported a conflict of two sections of which the engine, holding
\* both, has no event and reports no conflict
C26_Disagreement ==
  /\ req.op = "detect_conflicts"
  /\ req.courses = <<CourseG, CourseS>>
  /\ Len(out.conflicts) = 1
  /\ get_events(add_all(<<>>, req.courses), 0).result = <<>>
  /\ get_all_conflicts(add_all(<<>>, req.courses)) = <<>>

\* ---------------------------------------------------------------------------------
\* Properties of the number of columns
\* ---------------------------------------------------------------------------------

\* the event is in progress at the instant t
InProgress(e, t) == e.start_minutes <= t /\ t < e.end_minutes

\* the largest number of events of the list that are in progress at one same instant; as
\* the number in progress only rises at a start, the instants tried are the starts
MaxInProgress(L) ==
  LET depth(t) == Cardinality({j \in 1..Len(L) : InProgress(L[j], t)})
  IN  CHOOSE n \in 0..Len(L) :
        /\ \A k \in 1..Len(L) : depth(L[k].start_minutes) <= n
        /\ n = 0 \/ \E k \in 1..Len(L) : depth(L[k].start_minutes) = n

\* the assignments of n columns to the events of the list that keep overlapping events
\* in different columns
ProperAssignments(L, n) ==
  {f \in [1..Len(L) -> 1..n] :
     \A i, j \in 1..Len(L) : (i # j /\ SameDayOverlap(L[i], L[j])) => f[i] # f[j]}

\* C27: for every weekday with events in the list returned by get_events, total_columns
\* is the largest number of the day's events that are in progress at one same instant,
\* and no assignment of fewer columns keeps overlapping events in different columns
C27_ColumnsAreMinimal ==
  ret.op = "get_events" =>
    \A k \in 1..Len(ret.val) :
      /\ ret.val[k].total_columns = MaxInProgress(DayEvents(ret.val, ret.val[k].day))
      /\ ProperAssignments(DayEvents(ret.val, ret.val[k].day), ret.val[k].total_columns - 1) = {}

\* get_events returned a weekday with three events, two of them in progress at once and
\* never all three, in two columns
C27_Witness ==
  /\ ret.op = "get_events"
  /\ \E k \in 1..Len(ret.val) :
       /\ Len(DayEvents(ret.val, ret.val[k].day)) = 3
       /\ ret.val[k].total_columns = 2
       /\ MaxInProgress(DayEvents(ret.val, ret.val[k].day)) = 2
       /\ ProperAssignments(DayEvents(ret.val, ret.val[k].day), 2) # {}

\* every event of the list ends after it starts
ProperEvents(L) == \A k \in 1..Len(L) : L[k].start_minutes < L[k].end_minutes

\* on the weekdays whose events all end after they start, total_columns is the largest
\* number of events in progress at once and no assignment of fewer columns is proper
C27_MinimalOnProperEvents ==
  ret.op = "get_events" =>
    \A k \in 1..Len(ret.val) :
      ProperEvents(DayEvents(ret.val, ret.val[k].day)) =>
        /\ ret.val[k].total_columns = MaxInProgress(DayEvents(ret.val, ret.val[k].day))
        /\ ProperAssignments(DayEvents(ret.val, ret.val[k].day), ret.val[k].total_columns - 1) = {}

\* get_events returned a weekday whose events never overlap one another, one of them
\* ending before it starts, laid out in two columns
C27_WastedColumn ==
  /\ ret.op = "get_events"
  /\ \E k \in 1..Len(ret.val) :
       /\ ~ProperEvents(DayEvents(ret.val, ret.val[k].day))
       /\ ret.val[k].total_columns = 2
       /\ MaxInProgress(DayEvents(ret.val, ret.val[k].day)) = 1
       /\ ProperAssignments(DayEvents(ret.val, ret.val[k].day), 1) # {}

\* ---------------------------------------------------------------------------------
\* Properties of the candidates of a query
\* ---------------------------------------------------------------------------------

\* the normalized search texts of the sections of each catalog snapshot, by position
NormalizedTexts ==
  [snapshot \in Snapshots |->
     [i \in 1..Len(snapshot) |-> _normalize(index_text(snapshot[i]))]]

\* the normalized form of each query
NormalizedQueries == [query \in Queries |-> _normalize(query)]

\* sequence t occurs in sequence s as a run of consecutive elements
OccursIn(t, s) == \E i \in 1..(Len(s) - Len(t) + 1) : SubSeq(s, i, i + Len(t) - 1) = t

\* the ordinals that pass the filters of the request and whose normalized search text
\* contains the normalized query
VerbatimMatches ==
  {i \in filter(idx.bitmap_index, req.filters) :
     OccursIn(NormalizedQueries[req.query], NormalizedTexts[idx.courses][i + 1])}

\* C28: after a search with a query of 3 or more characters once stripped, every section
\* that passes the filters and whose normalized search text contains the normalized query
\* is among the candidates handed to the ranking
C28_SubstringMatchIsCandidate ==
  (req.op = "search_query" /\ Len(strip(req.query)) >= 3) =>
    VerbatimMatches \subseteq DOMAIN req.scores

\* the same for the queries that have as many distinct trigrams, once normalized, as the
\* threshold taken from the length of the stripped query
C28_CandidateWhenTrigramsSuffice ==
  (/\ req.op = "search_query"
   /\ Len(strip(req.query)) >= 3
   /\ Cardinality(_extract_trigrams(NormalizedQueries[req.query]))
        >= Max(1, Len(strip(req.query)) \div 4)) =>
    VerbatimMatches \subseteq DOMAIN req.scores

\* a query of 16 characters, threshold 4, was searched under a filter, and the sections
\* containing it, of which there are two or more, are candidates while another section
\* that passes the filter is not
C28_Witness ==
  /\ req.op = "search_query"
  /\ Len(strip(req.query)) = 16
  /\ req.filters["term"] # {}
  /\ Cardinality(VerbatimMatches) >= 2
  /\ VerbatimMatches \subseteq DOMAIN req.scores
  /\ filter(idx.bitmap_index, req.filters) \ DOMAIN req.scores # {}

\* a query whose stripped length is 13, threshold 3, and whose normalized form has two
\* trigrams was searched: sections contain the normalized query and none is a candidate
C28_ExcludedMatch ==
  /\ req.op = "search_query"
  /\ Len(strip(req.query)) = 13
  /\ Cardinality(_extract_trigrams(NormalizedQueries[req.query])) = 2
  /\ VerbatimMatches # {}
  /\ DOMAIN req.scores = {}

\* ---------------------------------------------------------------------------------
\* Properties of the read operations of the engine
\* ---------------------------------------------------------------------------------

ReadOps == {"get_events", "get_events_by_day", "get_all_conflicts", "to_dict"}

\* what the read operation op returns when it is called in the current state
ReadNow(op) ==
  CASE op = "get_events" -> get_events(courses, _color_index).result
    [] op = "get_events_by_day" -> get_events_by_day(courses, _color_index).result
    [] op = "get_all_conflicts" -> get_all_conflicts(courses)
    [] op = "to_dict" -> to_dict(courses, _color_index)

\* C29: _color_index is 0 between any two public operations; after get_events,
\* get_events_by_day, get_all_conflicts or to_dict the sections held are those held
\* before the call, and every read operation called next returns what it returns in the
\* state before the call, the one just called returning again what it returned, colors
\* and columns included
C29_ReadsLeaveStateUnchanged ==
  /\ _color_index = 0
  /\ ret.op \in ReadOps =>
       /\ courses = prev
       /\ ReadNow(ret.op) = ret.val

\* get_events_by_day returned for three sections held, two events of different colors
\* side by side on one weekday
C29_Witness ==
  /\ ret.op = "get_events_by_day"
  /\ Len(courses) = 3
  /\ \E day \in DOMAIN ret.val :
       \E i, j \in 1..Len(ret.val[day]) :
         /\ ret.val[day][i].color # ret.val[day][j].color
         /\ ret.val[day][i].column # ret.val[day][j].column

\* ---------------------------------------------------------------------------------
\* Properties of the overlap reported in a conflict
\* ---------------------------------------------------------------------------------

\* the conflicts in the value just returned by add_course or get_all_conflicts
ReturnedConflicts ==
  IF ret.op \in {"add_course", "get_all_conflicts"} /\ ~ret.raised THEN ret.val ELSE <<>>

\* C30: every conflict returned by add_course or get_all_conflicts has overlap_start
\* before overlap_end, so that its overlap duration is above 0
C30_OverlapIsPositive ==
  \A k \in 1..Len(ReturnedConflicts) :
    /\ ReturnedConflicts[k].overlap_start < ReturnedConflicts[k].overlap_end
    /\ overlap_duration(ReturnedConflicts[k]) > 0

\* the same for the conflicts between two events that both end after they start
C30_PositiveForProperEvents ==
  \A k \in 1..Len(ReturnedConflicts) :
    ProperEvents(<<ReturnedConflicts[k].event1, ReturnedConflicts[k].event2>>) =>
      /\ ReturnedConflicts[k].overlap_start < ReturnedConflicts[k].overlap_end
      /\ overlap_duration(ReturnedConflicts[k]) > 0

\* get_all_conflicts returned a conflict of 15 minutes and one of 30 minutes, each
\* between two events that end after they start
C30_Witness ==
  /\ ret.op = "get_all_conflicts"
  /\ \E k \in 1..Len(ret.val) :
       ProperEvents(<<ret.val[k].event1, ret.val[k].event2>>) /\ overlap_duration(ret.val[k]) = 15
  /\ \E k \in 1..Len(ret.val) :
       ProperEvents(<<ret.val[k].event1, ret.val[k].event2>>) /\ overlap_duration(ret.val[k]) = 30

\* add_course returned a conflict with an event that ends before it starts, and the
\* overlap reported ends before it starts
C30_NegativeOverlap ==
  /\ ret.op = "add_course"
  /\ ~ret.raised
  /\ \E k \in 1..Len(ret.val) :
       /\ ~ProperEvents(<<ret.val[k].event1, ret.val[k].event2>>)
       /\ overlap_duration(ret.val[k]) < 0

====
